---- MODULE Spec2Model ----
(***************************************************************************)
(* Model of the EFMD programme gap-analysis engine                         *)
(* (src/efmd_scraper_v2.py): the ProgrammeData aggregate, the keyword      *)
(* pillar-coverage scorer and EFMDScraper.analyze_gaps, which turns one    *)
(* ProgrammeData into one GapAnalysisResult; ILOAnalyzer.analyze, which    *)
(* classifies one learning outcome; and EFMDScraper.scrape_programme with  *)
(* the parser dispatch, the per-URL fetch and the document extraction it   *)
(* is built on.                                                            *)
(*                                                                         *)
(* Texts are TLA+ strings; Python's `kw in text` is the substring test     *)
(* Occurs, str.lower() is Lower and ' '.join is Join, so keyword matching  *)
(* is computed on the characters as the code computes it.                  *)
(***************************************************************************)
EXTENDS Integers, Sequences, FiniteSets, TLC

VARIABLES
    programme,  \* the ProgrammeData handed to analyze_gaps
    gap,        \* the GapAnalysisResult
    pc,         \* where the run is
    analysis,   \* the call of ILOAnalyzer.analyze: its arguments, then its result
    call,       \* the call of scrape_programme: its arguments and local variables
    report      \* the lines format_gap_report returned

vars == <<programme, gap, pc, analysis, call, report>>

----------------------------------------------------------------------------
(* Bounds of the model. *)

\* largest number of programme ILOs of an input programme
MaxIlos == 9
\* largest number of courses of an input programme
MaxCourses == 6
\* largest number of ERS phrases put into the raw text of an input
MaxKw == 3
\* the longest URL list a caller hands to scrape_programme
MaxUrls == 3
\* the longest document list a caller hands to scrape_programme
MaxDocs == 2
\* a size cap for raw_text at the scale of the modelled sources: the text of
\* every single page or document fits, the text of several does not
StoredTextCap == 128
\* a size cap for raw_html at the same scale: the HTML of one page fits
StoredHtmlCap == 32
\* the largest max_pages a SchoolCrawler is built with: more than the
\* pages of the site, so that the queue runs empty first
MaxPages == 8

----------------------------------------------------------------------------
(* Program constants. *)

\* PILLAR_MATCH_THRESHOLD = 0.55, in hundredths
PILLAR_MATCH_THRESHOLD == 55
\* programme.raw_text[:10000]
RawTextCap == 10000
\* min(1.0, matches / 3): coverage scores are kept in thirds, 0..FullCoverage
FullCoverage == 3

----------------------------------------------------------------------------
(* Python string and list primitives. *)

Min(a, b) == IF a < b THEN a ELSE b
Max(a, b) == IF a > b THEN a ELSE b

\* kw in text
Occurs(kw, text) ==
    \E i \in 1..(Len(text) - Len(kw) + 1) : SubSeq(text, i, i + Len(kw) - 1) = kw

\* the lower-case letter of every upper-case letter of the texts
LowerOf ==
    [A |-> "a", B |-> "b", C |-> "c", D |-> "d", E |-> "e", F |-> "f", G |-> "g",
     H |-> "h", I |-> "i", J |-> "j", K |-> "k", L |-> "l", M |-> "m", N |-> "n",
     O |-> "o", P |-> "p", Q |-> "q", R |-> "r", S |-> "s", T |-> "t", U |-> "u",
     V |-> "v", W |-> "w", X |-> "x", Y |-> "y", Z |-> "z"]

LowerChar(c) == IF c \in DOMAIN LowerOf THEN LowerOf[c] ELSE c

\* text.lower(): character by character, halving the text to keep the
\* evaluation shallow
RECURSIVE Lower(_)
Lower(text) ==
    IF Len(text) = 0 THEN ""
    ELSE IF Len(text) = 1 THEN LowerChar(text)
    ELSE LET half == Len(text) \div 2
         IN  Lower(SubSeq(text, 1, half)) \o Lower(SubSeq(text, half + 1, Len(text)))

\* sep.join(parts)
RECURSIVE Join(_, _)
Join(parts, sep) ==
    IF Len(parts) = 0 THEN ""
    ELSE IF Len(parts) = 1 THEN parts[1]
    ELSE parts[1] \o sep \o Join(Tail(parts), sep)

\* the entries of a list, as a set
Range(xs) == {xs[i] : i \in 1..Len(xs)}

\* Python's None
None == "None"

----------------------------------------------------------------------------
(* Data classes. *)

\* ILOAnalysis(text, source_language, ksa_category, verb_found,
\*             has_weak_verb, is_measurable)
ILOAnalysis(text, cat, verb, weak) ==
    [text |-> text, source_language |-> "en", ksa_category |-> cat,
     verb_found |-> verb, has_weak_verb |-> weak,
     is_measurable |-> (cat # None /\ ~weak)]

\* CourseData(title, course_ilos): the dataclass has no field named ilos
CourseData(title, course_ilos) == [title |-> title, course_ilos |-> course_ilos]

\* hasattr(obj, name) on a dataclass instance
HasAttr(obj, name) == name \in DOMAIN obj

\* GapAnalysisResult(programme=programme): the field defaults
NewGapAnalysisResult ==
    [readiness_score |-> 0, eligibility_pass |-> FALSE,
     ilo_count |-> 0, ilo_has_knowledge |-> FALSE, ilo_has_skills |-> FALSE,
     ilo_has_attitudes |-> FALSE, ilo_weak_verb_count |-> 0,
     courses_total |-> 0, courses_with_ilos |-> 0, courses_no_ilos |-> <<>>,
     documentation_score |-> [num |-> 0, den |-> 1],
     ilo_issues |-> <<>>, pillar_coverage |-> <<>>, missing_pillars |-> <<>>,
     eligibility_gates |-> <<>>, critical_gaps |-> <<>>,
     structure_issues |-> <<>>, recommendations |-> <<>>,
     estimated_fix_months |-> 0]

----------------------------------------------------------------------------
(* Pillar coverage: EFMDScraper._check_pillar_coverage. *)

\* the keys of the keywords dict, in insertion order
Pillars == <<"International", "Practice", "ERS", "Digital">>

keywords ==
    [International |-> <<"international", "global", "cross-cultural", "worldwide",
                         "foreign", "abroad", "exchange", "intercultural">>,
     Practice |-> <<"practical", "industry", "corporate", "business", "real-world",
                    "case study", "internship", "project", "consultancy">>,
     ERS |-> <<"ethics", "ethical", "responsibility", "sustainable", "sustainability",
               "csr", "governance", "esg", "stakeholder">>,
     Digital |-> <<"digital", "technology", "data", "analytics", "ai",
                   "artificial intelligence", "software", "fintech">>]

\* the combined, lower-cased text the keywords are looked up in
CombinedText(p) ==
    Lower(Join(<<p.programme_name,
                 Join([i \in 1..Len(p.programme_ilos) |-> p.programme_ilos[i].text], " "),
                 Join(p.programme_aims, " "),
                 Join([i \in 1..Len(p.courses) |-> p.courses[i].title], " "),
                 SubSeq(p.raw_text, 1, Min(Len(p.raw_text), RawTextCap))>>, " "))

\* matches = sum(1 for kw in kws if kw in all_text): one per list position
Matches(kws, all_text) == Cardinality({i \in 1..Len(kws) : Occurs(kws[i], all_text)})

\* mutation: the score is not capped at 1.0
CoverageScore_NoCap(matches) == matches

\* min(1.0, matches / 3), in thirds
CoverageScore(matches) == Min(FullCoverage, matches)

\* {pillar: score}, a function on the pillar names
CheckPillarCoverage(p) ==
    LET all_text == CombinedText(p)
    IN  [pillar \in Range(Pillars) |-> CoverageScore(Matches(keywords[pillar], all_text))]

\* mutation: compared with STRONG_MATCH_THRESHOLD = 0.70
BelowThreshold_Strong(score) == score * 100 < 70 * FullCoverage

\* score < PILLAR_MATCH_THRESHOLD, for a score in thirds
BelowThreshold(score) == score * 100 < PILLAR_MATCH_THRESHOLD * FullCoverage

----------------------------------------------------------------------------
(* EFMDScraper.analyze_gaps, section by section. *)

\* mutation: every ILO counts for every category
KsaCount_Any(p, cat) == Len(p.programme_ilos)

\* sum(1 for ilo in programme.programme_ilos if ilo.ksa_category == cat)
KsaCount(p, cat) ==
    Cardinality({i \in 1..Len(p.programme_ilos) : p.programme_ilos[i].ksa_category = cat})

\* sum(1 for ilo in programme.programme_ilos if ilo.has_weak_verb)
WeakVerbCount(p) ==
    Cardinality({i \in 1..Len(p.programme_ilos) : p.programme_ilos[i].has_weak_verb})

\* === ILO Analysis ===: the fields set from the ILO list
IloAnalysis(g, p) ==
    LET ilo_count == Len(p.programme_ilos)
        g1 == [g EXCEPT !.ilo_count = ilo_count]
    IN  IF ilo_count = 0
        THEN [g1 EXCEPT
                !.critical_gaps = Append(@, "NO PROGRAMME ILOs FOUND - Critical for EFMD"),
                !.ilo_issues = Append(@, "Programme ILOs are missing entirely")]
        ELSE
        LET countIssue ==
                IF ilo_count < 5
                THEN <<"Only " \o ToString(ilo_count) \o " ILOs - EFMD recommends 5-6">>
                ELSE IF ilo_count > 8
                THEN <<ToString(ilo_count) \o " ILOs is too many - EFMD recommends 5-6">>
                ELSE <<>>
            has_knowledge == KsaCount(p, "Knowledge") > 0
            has_skills == KsaCount(p, "Skill") > 0
            has_attitudes == KsaCount(p, "Attitude") > 0
            weak == WeakVerbCount(p)
        IN  [g1 EXCEPT
                !.ilo_weak_verb_count = weak,
                !.ilo_has_knowledge = has_knowledge,
                !.ilo_has_skills = has_skills,
                !.ilo_has_attitudes = has_attitudes,
                !.ilo_issues = @ \o countIssue
                    \o (IF has_knowledge THEN <<>> ELSE <<"No Knowledge-focused ILOs detected">>)
                    \o (IF has_skills THEN <<>> ELSE <<"No Skill-focused ILOs detected">>)
                    \o (IF has_attitudes THEN <<>> ELSE <<"No Attitude-focused ILOs detected">>)
                    \o (IF weak > 0
                        THEN <<ToString(weak) \o " ILOs use weak/unmeasurable verbs">>
                        ELSE <<>>),
                !.critical_gaps = @
                    \o (IF has_knowledge THEN <<>> ELSE <<"Missing Knowledge dimension in ILOs">>)
                    \o (IF has_skills THEN <<>> ELSE <<"Missing Skills dimension in ILOs">>)
                    \o (IF has_attitudes THEN <<>> ELSE <<"Missing Attitudes dimension in ILOs">>)]

\* for pillar, score in gap.pillar_coverage.items():
\*     if score < PILLAR_MATCH_THRESHOLD: gap.missing_pillars.append(pillar)
MissingPillars(coverage) == SelectSeq(Pillars, LAMBDA pillar : BelowThreshold(coverage[pillar]))

\* mutation: a missing ERS pillar is not escalated
PillarCriticalGaps_None(missing) == <<>>

\* if 'ERS' in gap.missing_pillars: gap.critical_gaps.append(...)
PillarCriticalGaps(missing) ==
    IF "ERS" \in Range(missing)
    THEN <<"ERS content missing - mandatory since 2013">> ELSE <<>>

\* the recommendation appended for each missing pillar, ERS first
PillarRecommendations(missing) ==
    (IF "ERS" \in Range(missing)
     THEN <<"Integrate ethics and sustainability across curriculum">> ELSE <<>>)
    \o (IF "International" \in Range(missing)
        THEN <<"Add international/global perspective to curriculum">> ELSE <<>>)
    \o (IF "Practice" \in Range(missing)
        THEN <<"Strengthen links to business practice">> ELSE <<>>)
    \o (IF "Digital" \in Range(missing)
        THEN <<"Add digital transformation content">> ELSE <<>>)

\* === Pillar Coverage ===
PillarAnalysis(g, p) ==
    LET coverage == CheckPillarCoverage(p)
        missing == MissingPillars(coverage)
    IN  [g EXCEPT
            !.pillar_coverage = coverage,
            !.missing_pillars = @ \o missing,
            !.critical_gaps = @ \o PillarCriticalGaps(missing),
            !.recommendations = @ \o PillarRecommendations(missing)]

\* === Structure Issues ===
StructureAnalysis(g, p) ==
    [g EXCEPT
        !.structure_issues = @
            \o (IF Len(p.courses) = 0 THEN <<"No course structure found">> ELSE <<>>)
            \o (IF p.has_ilo_matrix THEN <<>> ELSE <<"No ILO mapping matrix visible">>),
        !.recommendations = @
            \o (IF p.has_ilo_matrix THEN <<>>
                ELSE <<"Create matrix: Course ILOs -> Programme ILOs -> Assessments">>)]

\* course_has_ilos = hasattr(course, 'ilos') and len(course.ilos) > 0
CourseHasIlos(course) == HasAttr(course, "ilos") /\ Len(course.ilos) > 0

\* the for loop over programme.courses: the if branch counts, and the else
\* clause belongs to the for statement, so it runs once, after the last
\* iteration, with course still bound to the last course
CoursesLoop(g, courses) ==
    [g EXCEPT
        !.courses_with_ilos = @ + Cardinality({i \in 1..Len(courses) : CourseHasIlos(courses[i])}),
        !.courses_no_ilos = Append(@, courses[Len(courses)].title)]

\* documentation_score < pct, for the score kept as the fraction num/den
ScoreBelow(score, pct) == score.num < pct * score.den

\* === Documentation Status ===
DocumentationStatus(g, p) ==
    IF Len(p.courses) = 0 THEN g
    ELSE
    LET g1 == CoursesLoop([g EXCEPT !.courses_total = Len(p.courses)], p.courses)
        g2 == IF g1.courses_total > 0
              THEN [g1 EXCEPT !.documentation_score =
                        [num |-> g1.courses_with_ilos * 100, den |-> g1.courses_total]]
              ELSE g1
    IN  IF ScoreBelow(g2.documentation_score, 80)
        THEN [g2 EXCEPT
                !.structure_issues = Append(@,
                    "Only " \o ToString(g2.courses_with_ilos) \o "/"
                    \o ToString(g2.courses_total) \o " courses have documented ILOs"),
                !.recommendations = Append(@,
                    "Document ILOs for all courses before SAR submission")]
        ELSE g2

\* the ten gate ids
GateIds == {"ELG-1", "ELG-2", "ELG-3", "ELG-4", "ELG-5",
            "ELG-6", "ELG-7", "ELG-8", "ELG-9", "ELG-10"}

\* mutation: the empty ILO list is not told apart
Elg4_NoFail(ilo_count) == IF ilo_count >= 5 THEN "pass" ELSE "partial"

\* mutation: 5 ILOs are not enough to pass
Elg4_Strict(ilo_count) ==
    IF ilo_count = 0 THEN "fail" ELSE IF ilo_count > 5 THEN "pass" ELSE "partial"

\* 'fail' if gap.ilo_count == 0 else ('pass' if gap.ilo_count >= 5 else 'partial')
Elg4(ilo_count) ==
    IF ilo_count = 0 THEN "fail" ELSE IF ilo_count >= 5 THEN "pass" ELSE "partial"

\* === Eligibility Gates ===
EligibilityGates(g, p) ==
    [g EXCEPT !.eligibility_gates =
        [gate \in GateIds |->
            CASE gate = "ELG-1" -> "pass"
              [] gate = "ELG-2" -> (IF p.degree_type # None THEN "pass" ELSE "unknown")
              [] gate = "ELG-4" -> Elg4(g.ilo_count)
              [] OTHER -> "unknown"]]

\* mutation: the missing percentage is not divided by 10
DocPenalty_NoScale(score) == (100 * score.den - score.num) \div score.den

\* int((100 - gap.documentation_score) / 10)
DocPenalty(score) == (100 * score.den - score.num) \div (10 * score.den)

\* === Readiness Score ===: the score before it is clamped
RawScore(g) ==
    100
    - (IF g.ilo_count = 0 THEN 20 ELSE 0)
    - (IF "ERS" \in Range(g.missing_pillars) THEN 20 ELSE 0)
    - (IF ~g.ilo_has_knowledge THEN 10 ELSE 0)
    - (IF ~g.ilo_has_skills THEN 10 ELSE 0)
    - (IF ~g.ilo_has_attitudes THEN 10 ELSE 0)
    - Len(g.missing_pillars) * 5
    - Len(g.structure_issues) * 5
    - Len(g.ilo_issues) * 3
    - (IF g.courses_total > 0 /\ ScoreBelow(g.documentation_score, 100)
       THEN DocPenalty(g.documentation_score) ELSE 0)

\* mutation: the score is not clamped at 0
ReadinessScore_NoClamp(g) == RawScore(g)

\* gap.readiness_score = max(0, score)
ReadinessScore(g) == Max(0, RawScore(g))

\* mutation: the critical gaps are not looked at
EligibilityPass_ScoreOnly(g) == g.readiness_score >= 70

\* mutation: a score of exactly 70 does not pass
EligibilityPass_Above(g) == g.readiness_score > 70 /\ Len(g.critical_gaps) = 0

\* gap.readiness_score >= 70 and len(gap.critical_gaps) == 0
EligibilityPass(g) == g.readiness_score >= 70 /\ Len(g.critical_gaps) = 0

\* === Estimate Fix Time ===
EstimatedFixMonths(score) ==
    IF score >= 80 THEN 1 ELSE IF score >= 60 THEN 3 ELSE IF score >= 40 THEN 6 ELSE 12

\* analyze_gaps(programme) -> GapAnalysisResult
AnalyzeGapsResult(p) ==
    LET g1 == IloAnalysis(NewGapAnalysisResult, p)
        g2 == PillarAnalysis(g1, p)
        g3 == StructureAnalysis(g2, p)
        g4 == DocumentationStatus(g3, p)
        g5 == EligibilityGates(g4, p)
        g6 == [g5 EXCEPT !.readiness_score = ReadinessScore(g5)]
        g7 == [g6 EXCEPT !.eligibility_pass = EligibilityPass(g6)]
    IN  [g7 EXCEPT !.estimated_fix_months = EstimatedFixMonths(g7.readiness_score)]

----------------------------------------------------------------------------
(* format_gap_report.  A report is the list of the lines that the function  *)
(* joins with "\n", from the readiness score on; the heading with the       *)
(* programme's name, institution, URL, languages and the time of the        *)
(* analysis is left out.  The symbols in front of the labels are written    *)
(* in ASCII: (green), (yellow), (orange), (red) for the circles, [ok] for   *)
(* the check mark, [x] for the cross, [!] for the warning sign, (alarm)   *)
(* for the siren.                                                          *)

\* STRONG_MATCH_THRESHOLD = 0.70, in hundredths
STRONG_MATCH_THRESHOLD == 70

\* "-" * 70 and "=" * 70
Rule(c) == Join([i \in 1..70 |-> c], "")

\* format(num / den, ".0f"): the nearest integer, a half going to the even one
Round(num, den) ==
    LET q == num \div den
        twice == 2 * (num % den)
    IN  IF twice > den \/ (twice = den /\ q % 2 = 1) THEN q + 1 ELSE q

\* mutation: the label bands start one band lower
StatusLabel_Shifted(score) ==
    IF score >= 60 THEN "(green) READY - Minor improvements needed"
    ELSE IF score >= 40 THEN "(yellow) PARTIAL - Significant work required"
    ELSE IF score >= 20 THEN "(orange) AT RISK - Major gaps to address"
    ELSE "(red) NOT READY - Fundamental issues"

\* # Readiness Score: the status label of a score
StatusLabel(score) ==
    IF score >= 80 THEN "(green) READY - Minor improvements needed"
    ELSE IF score >= 60 THEN "(yellow) PARTIAL - Significant work required"
    ELSE IF score >= 40 THEN "(orange) AT RISK - Major gaps to address"
    ELSE "(red) NOT READY - Fundamental issues"

\* format_gap_report(gap), with prog = gap.programme
FormatGapReport(g, prog) ==
    LET Mark(flag) == IF flag THEN "[ok]" ELSE "[x]"
        readiness ==
            <<"EFMD READINESS SCORE: " \o ToString(g.readiness_score) \o "/100",
              "Status: " \o StatusLabel(g.readiness_score),
              "Estimated time to readiness: " \o ToString(g.estimated_fix_months)
                  \o " months",
              "">>
        critical ==
            IF Len(g.critical_gaps) = 0 THEN <<>>
            ELSE <<Rule("-"), "(alarm) CRITICAL GAPS (Must fix before submission)", Rule("-")>>
                 \o [i \in 1..Len(g.critical_gaps) |-> "  [x] " \o g.critical_gaps[i]]
                 \o <<"">>
        ilos ==
            <<Rule("-"), "INTENDED LEARNING OUTCOMES (ILOs)", Rule("-"),
              "  Count: " \o ToString(g.ilo_count) \o " (optimal: 5-6)",
              "  Knowledge dimension: " \o Mark(g.ilo_has_knowledge),
              "  Skills dimension: " \o Mark(g.ilo_has_skills),
              "  Attitudes dimension: " \o Mark(g.ilo_has_attitudes),
              "  Weak verbs found: " \o ToString(g.ilo_weak_verb_count)>>
            \o (IF Len(g.ilo_issues) = 0 THEN <<>>
                ELSE <<"", "  Issues:">>
                     \o [i \in 1..Len(g.ilo_issues) |-> "    [!]  " \o g.ilo_issues[i]])
            \o <<"">>
        found ==
            IF Len(prog.programme_ilos) = 0 THEN <<>>
            ELSE <<"  ILOs Found:">>
                 \o [i \in 1..Len(prog.programme_ilos) |->
                        LET ilo == prog.programme_ilos[i]
                            category == IF ilo.ksa_category # None
                                        THEN "[" \o ilo.ksa_category \o "]" ELSE "[?]"
                            weak == IF ilo.has_weak_verb THEN " [!]WEAK" ELSE ""
                            display == IF Len(ilo.text) > 80
                                       THEN SubSeq(ilo.text, 1, 80) \o "..."
                                       ELSE ilo.text
                        IN  "    " \o ToString(i) \o ". " \o category \o weak
                                \o " " \o display]
                 \o <<"">>
        documentation ==
            IF g.courses_total > 0
            THEN LET doc_pct == g.documentation_score
                     doc_icon == IF ~ScoreBelow(doc_pct, 90) THEN "[ok]"
                                 ELSE IF ~ScoreBelow(doc_pct, 70) THEN "(yellow)"
                                 ELSE "[x]"
                     shown == SubSeq(g.courses_no_ilos, 1, Min(10, Len(g.courses_no_ilos)))
                 IN  <<Rule("-"), "DOCUMENTATION STATUS", Rule("-"),
                       "  Courses with ILOs: " \o ToString(g.courses_with_ilos) \o "/"
                           \o ToString(g.courses_total) \o " ("
                           \o ToString(Round(doc_pct.num, doc_pct.den)) \o "%) " \o doc_icon>>
                     \o (IF Len(g.courses_no_ilos) = 0 THEN <<>>
                         ELSE <<"", "  Courses missing ILOs:">>
                              \o [i \in 1..Len(shown) |-> "    [x] " \o shown[i]]
                              \o (IF Len(g.courses_no_ilos) > 10
                                  THEN <<"    ... and "
                                         \o ToString(Len(g.courses_no_ilos) - 10) \o " more">>
                                  ELSE <<>>))
                     \o <<"">>
            ELSE <<>>
        pillars ==
            <<Rule("-"), "EFMD PILLAR COVERAGE", Rule("-")>>
            \o [i \in 1..Len(Pillars) |->
                   LET score == g.pillar_coverage[Pillars[i]]
                       icon == IF score * 100 >= STRONG_MATCH_THRESHOLD * FullCoverage
                               THEN "[ok]"
                               ELSE IF score * 100 >= PILLAR_MATCH_THRESHOLD * FullCoverage
                               THEN "(yellow)" ELSE "[x]"
                   IN  "  " \o Pillars[i] \o ": " \o icon \o " ("
                           \o ToString(Round(score * 100, FullCoverage)) \o "%)"]
            \o (IF Len(g.missing_pillars) = 0 THEN <<>>
                ELSE <<"", "  Missing/weak pillars:">>
                     \o [i \in 1..Len(g.missing_pillars) |-> "    [x] " \o g.missing_pillars[i]])
            \o <<"">>
        structure ==
            IF Len(g.structure_issues) = 0 THEN <<>>
            ELSE <<Rule("-"), "STRUCTURE ISSUES", Rule("-")>>
                 \o [i \in 1..Len(g.structure_issues) |-> "  [!]  " \o g.structure_issues[i]]
                 \o <<"">>
        recommendations ==
            IF Len(g.recommendations) = 0 THEN <<>>
            ELSE <<Rule("-"), "RECOMMENDATIONS", Rule("-")>>
                 \o [i \in 1..Len(g.recommendations) |->
                        "  " \o ToString(i) \o ". " \o g.recommendations[i]]
                 \o <<"">>
    IN  readiness \o critical \o ilos \o found \o documentation \o pillars
            \o structure \o recommendations
            \o <<Rule("="), "END OF REPORT", Rule("=")>>

----------------------------------------------------------------------------
(* The input programmes. *)

\* ILOAnalysis records as ILOAnalyzer.analyze returns them for these texts
IloSpecimens ==
    [K  |-> ILOAnalysis("Describe theory", "Knowledge", "describe", FALSE),
     KW |-> ILOAnalysis("Understand markets", "Knowledge", "understand", TRUE),
     S  |-> ILOAnalysis("Apply methods", "Skill", "apply", FALSE),
     SE |-> ILOAnalysis("Analyse ethical cases", "Skill", "analyse", FALSE),
     A  |-> ILOAnalysis("Respect peers", "Attitude", "respect", FALSE),
     N  |-> ILOAnalysis("Students lead", None, None, FALSE)]

\* which specimens a programme's ILO list cycles through
IloMixes == {<<"K", "S", "A">>, <<"KW", "S", "A">>, <<"N", "SE">>, <<"K", "A">>}

\* the ILO counts of the inputs: around the limits 0, 5 and 8 of analyze_gaps
IloCounts == {0, 4, 5, 6, 8, MaxIlos}

\* n ILOs with pairwise different texts
MakeIlos(mix, n) ==
    [i \in 1..n |->
        LET ilo == IloSpecimens[mix[((i - 1) % Len(mix)) + 1]]
        IN  [ilo EXCEPT !.text = @ \o " " \o ToString(i)]]

CourseTitles ==
    <<"Corporate Finance", "Investments", "Derivatives", "Pricing",
      "Statistics", "Thesis", "Accounting", "Taxation">>

\* n courses, the first d of them with a documented course-level outcome
MakeCourses(n, d) ==
    [i \in 1..n |->
        CourseData(CourseTitles[i], IF i <= d THEN <<"Describe the topic">> ELSE <<>>)]

\* <<number of courses, number of documented courses>>
CourseShapes ==
    {cd \in {0, 1, MaxCourses} \X (0..MaxCourses) : cd[2] \in {cd[1] - 1, cd[1]}}

ErsPhrases ==
    <<"Business Ethics", "ethical choices", "sustainable finance",
      "responsibility", "ESG", "stakeholder">>

PillarSentence ==
    [International |-> "Global exchange abroad",
     Practice |-> "Industry internship project",
     Digital |-> "Digital data software"]

\* the scraped text: the first ers ERS phrases, then one sentence per covered pillar
MakeRawText(ers, covered) ==
    Join(SubSeq(ErsPhrases, 1, Min(ers, Len(ErsPhrases)))
         \o SelectSeq(<<PillarSentence.International, PillarSentence.Practice,
                        PillarSentence.Digital>>,
                      LAMBDA t : \E q \in covered : PillarSentence[q] = t),
         ". ")

\* which pillars get their sentence
CoveredChoices ==
    {{}, {"International", "Practice"}, {"Digital"},
     {"International", "Practice", "Digital"}}

\* name, degree type and aims of the input programmes
Profiles ==
    {[programme_name |-> "MSc Finance", degree_type |-> "MSc", programme_aims |-> <<>>],
     [programme_name |-> "Global Business Programme", degree_type |-> None,
      programme_aims |-> <<"Prepare for industry", "Good governance">>]}

\* ProgrammeData(...)
ProgrammeData(profile, ilos, courses, raw_text, has_ilo_matrix) ==
    [programme_name |-> profile.programme_name,
     degree_type |-> profile.degree_type,
     programme_aims |-> profile.programme_aims,
     programme_ilos |-> ilos,
     courses |-> courses,
     raw_text |-> raw_text,
     has_ilo_matrix |-> has_ilo_matrix]

Programmes ==
    {ProgrammeData(profile, MakeIlos(mix, n), MakeCourses(cd[1], cd[2]),
                   MakeRawText(ers, covered), matrix) :
        profile \in Profiles, mix \in IloMixes, n \in IloCounts,
        cd \in CourseShapes,
        ers \in 0..MaxKw, covered \in CoveredChoices,
        matrix \in BOOLEAN}

----------------------------------------------------------------------------
(* The state machine: a programme is handed to analyze_gaps once. *)

NoGap == [analyzed |-> FALSE]

\* no call of ILOAnalyzer.analyze is under way
NoAnalysis == [analyzed |-> FALSE]

\* no call of scrape_programme is under way
NoCall == [called |-> FALSE]

\* format_gap_report has not been called
NoReport == <<>>

Init ==
    /\ programme \in Programmes
    /\ gap = NoGap
    /\ pc = "scraped"
    /\ analysis = NoAnalysis
    /\ call = NoCall
    /\ report = NoReport

\* gap = scraper.analyze_gaps(programme)
AnalyzeGaps ==
    /\ pc = "scraped"
    /\ gap' = AnalyzeGapsResult(programme)
    /\ pc' = "analyzed"
    /\ UNCHANGED <<programme, analysis, call, report>>

\* print("\n" + format_gap_report(gap))
FormatReport ==
    /\ pc = "analyzed"
    /\ report' = FormatGapReport(gap, programme)
    /\ pc' = "reported"
    /\ UNCHANGED <<programme, gap, analysis, call>>

Next == AnalyzeGaps \/ FormatReport

Spec == Init /\ [][Next]_vars

----------------------------------------------------------------------------
(* Properties of analyze_gaps. *)

Analyzed == pc = "analyzed"

\* the programme has no ILO classified as cat
LacksCategory(cat) == \A i \in 1..Len(programme.programme_ilos) :
                          programme.programme_ilos[i].ksa_category # cat

\* the distinct keywords of a pillar that occur in the combined text
KeywordsFound(pillar) ==
    LET all_text == CombinedText(programme)
    IN  {kw \in Range(keywords[pillar]) : Occurs(kw, all_text)}

\* C1: eligibility_pass is true if and only if readiness_score >= 70 and
\* critical_gaps is empty; 70 without critical gaps passes, 69 does not, and
\* nothing passes with a critical gap.
C1_EligibilityPass ==
    Analyzed =>
        /\ gap.eligibility_pass <=>
               (gap.readiness_score >= 70 /\ gap.critical_gaps = <<>>)
        /\ (gap.readiness_score = 70 /\ gap.critical_gaps = <<>>) => gap.eligibility_pass
        /\ (gap.readiness_score = 69 /\ gap.critical_gaps = <<>>) => ~gap.eligibility_pass
        /\ gap.critical_gaps # <<>> => ~gap.eligibility_pass

\* a programme scoring exactly 70 without critical gaps has been analysed, and passes
C1_Witness ==
    /\ Analyzed
    /\ gap.readiness_score = 70
    /\ gap.critical_gaps = <<>>
    /\ gap.eligibility_pass

\* the penalties of the readiness score, from the programme and the result's lists
C2_Penalties ==
    (IF Len(programme.programme_ilos) = 0 THEN 20 ELSE 0)
    + (IF "ERS" \in Range(gap.missing_pillars) THEN 20 ELSE 0)
    + 10 * Cardinality({cat \in {"Knowledge", "Skill", "Attitude"} : LacksCategory(cat)})
    + 5 * Len(gap.missing_pillars)
    + 5 * Len(gap.structure_issues)
    + 3 * Len(gap.ilo_issues)
    + (IF Len(programme.courses) > 0
       THEN (100 * gap.documentation_score.den - gap.documentation_score.num)
                \div (10 * gap.documentation_score.den)
       ELSE 0)

C3_ScoreRange == Analyzed => gap.readiness_score \in 0..100

\* a programme whose unclamped score is negative has been analysed
C3_Witness == Analyzed /\ RawScore(gap) < 0 /\ gap.readiness_score = 0

\* scenario B: 6 ILOs spanning Knowledge, Skill and Attitude, no weak verb, at
\* least 3 keywords of every pillar, one course per ILO with documented
\* outcomes (and the ILO matrix visible, so that nothing else is penalised)
ScenarioB ==
    /\ Len(programme.programme_ilos) = 6
    /\ \A cat \in {"Knowledge", "Skill", "Attitude"} : ~LacksCategory(cat)
    /\ \A i \in 1..6 : ~programme.programme_ilos[i].has_weak_verb
    /\ \A pillar \in Range(Pillars) : Cardinality(KeywordsFound(pillar)) >= 3
    /\ Len(programme.courses) = Len(programme.programme_ilos)
    /\ \A i \in 1..Len(programme.courses) : Len(programme.courses[i].course_ilos) > 0
    /\ programme.has_ilo_matrix

\* C4: for a scenario B programme analyze_gaps returns readiness_score == 100
\* and eligibility_pass == true.
C4_ScenarioB ==
    (Analyzed /\ ScenarioB) => (gap.readiness_score = 100 /\ gap.eligibility_pass)

\* C5: for any programme with zero ILOs, ilo_count == 0, the 'no ILOs found'
\* entry is in critical_gaps, ELG-4 is 'fail' and eligibility_pass is false.
C5_ScenarioA ==
    (Analyzed /\ Len(programme.programme_ilos) = 0) =>
        /\ gap.ilo_count = 0
        /\ "NO PROGRAMME ILOs FOUND - Critical for EFMD" \in Range(gap.critical_gaps)
        /\ gap.eligibility_gates["ELG-4"] = "fail"
        /\ ~gap.eligibility_pass

\* a programme without ILOs but with courses, the matrix and every pillar
\* covered has been analysed
C5_Witness ==
    /\ Analyzed
    /\ Len(programme.programme_ilos) = 0
    /\ Len(programme.courses) > 0
    /\ programme.has_ilo_matrix
    /\ gap.missing_pillars = <<>>

\* the courses that have at least one course-level outcome text
C6_Documented ==
    {i \in 1..Len(programme.courses) : Len(programme.courses[i].course_ilos) > 0}

\* C6: for a programme with courses, courses_with_ilos is the number of courses
\* with at least one course-level outcome, documentation_score is
\* courses_with_ilos / courses_total * 100, and the structural issue and the
\* recommendation are added exactly when that percentage is below 80.
C6_Documentation ==
    (Analyzed /\ Len(programme.courses) > 0) =>
        LET documented == Cardinality(C6_Documented)
            total == Len(programme.courses)
            issue == "Only " \o ToString(gap.courses_with_ilos) \o "/"
                     \o ToString(gap.courses_total) \o " courses have documented ILOs"
            below == documented * 100 < 80 * total
        IN  /\ gap.courses_with_ilos = documented
            /\ gap.documentation_score.num * total
                   = documented * 100 * gap.documentation_score.den
            /\ (issue \in Range(gap.structure_issues)) <=> below
            /\ ("Document ILOs for all courses before SAR submission"
                   \in Range(gap.recommendations)) <=> below

C8_MissingPillars ==
    Analyzed =>
        /\ Range(gap.missing_pillars) =
               {pillar \in DOMAIN gap.pillar_coverage :
                   100 * gap.pillar_coverage[pillar] < 55 * 3}
        /\ Cardinality(Range(gap.missing_pillars)) = Len(gap.missing_pillars)

\* a result with a pillar scoring 2/3 (not missing) and one scoring 1/3 (missing)
C8_Witness ==
    /\ Analyzed
    /\ \E pillar \in DOMAIN gap.pillar_coverage :
          gap.pillar_coverage[pillar] = 2 /\ pillar \notin Range(gap.missing_pillars)
    /\ \E pillar \in DOMAIN gap.pillar_coverage :
          gap.pillar_coverage[pillar] = 1 /\ pillar \in Range(gap.missing_pillars)

\* the critical gaps the ILO checks add: one for an empty ILO list, else one
\* per KSA category no ILO falls in
C9_IloCriticalGaps ==
    IF Len(programme.programme_ilos) = 0 THEN 1
    ELSE Cardinality({cat \in {"Knowledge", "Skill", "Attitude"} : LacksCategory(cat)})

\* C9: a missing ERS pillar adds the ERS critical gap and the fixed ERS
\* recommendation, so eligibility_pass is false; a missing International,
\* Practice or Digital pillar adds only its own recommendation, never a
\* critical gap.
C9_ErsEscalation ==
    Analyzed =>
        LET missing == Range(gap.missing_pillars)
            critical == Range(gap.critical_gaps)
            recs == Range(gap.recommendations)
        IN  /\ ("ERS" \in missing) <=>
                   ("ERS content missing - mandatory since 2013" \in critical)
            /\ ("ERS" \in missing) <=>
                   ("Integrate ethics and sustainability across curriculum" \in recs)
            /\ ("ERS" \in missing) => ~gap.eligibility_pass
            /\ ("International" \in missing) <=>
                   ("Add international/global perspective to curriculum" \in recs)
            /\ ("Practice" \in missing) <=>
                   ("Strengthen links to business practice" \in recs)
            /\ ("Digital" \in missing) <=>
                   ("Add digital transformation content" \in recs)
            /\ Len(gap.critical_gaps) =
                   C9_IloCriticalGaps + (IF "ERS" \in missing THEN 1 ELSE 0)

\* a result where only ERS is missing: the score alone would pass, the
\* critical gap forbids it
C9_Witness ==
    /\ Analyzed
    /\ gap.missing_pillars = <<"ERS">>
    /\ gap.readiness_score >= 70
    /\ ~gap.eligibility_pass

----------------------------------------------------------------------------
(* ILOAnalyzer.analyze: the Bloom's-taxonomy verb lists and the checks.     *)
(* The texts of the model are ASCII, so a list entry with a letter outside  *)
(* ASCII (such as the German and French entries with an umlaut or an        *)
(* accent) occurs in none of them; those entries are left out, which does   *)
(* not change which entry is the first to occur.                            *)

KNOWLEDGE_VERBS ==
    <<"define", "describe", "identify", "know", "label", "list", "match",
      "name", "outline", "recall", "recognize", "reproduce", "select", "state",
      "understand", "explain", "interpret", "summarize", "classify", "compare",
      "demonstrate understanding", "possess knowledge", "have knowledge",
      "beskrive", "forklare", "identifisere", "gjenkjenne", "definere",
      "beschreiben", "identifizieren", "erkennen", "definieren",
      "expliquer", "identifier">>

SKILL_VERBS ==
    <<"apply", "demonstrate", "employ", "illustrate", "interpret", "operate",
      "practice", "schedule", "sketch", "solve", "use", "write", "analyze",
      "analyse", "calculate", "categorize", "compare", "contrast", "criticize",
      "differentiate", "discriminate", "distinguish", "examine", "experiment",
      "question", "test", "create", "design", "develop", "formulate", "construct",
      "produce", "plan", "compose", "integrate", "evaluate", "assess", "argue",
      "defend", "judge", "support", "value", "critique", "recommend",
      "anvende", "analysere", "vurdere", "utvikle", "designe",
      "anwenden", "analysieren", "bewerten", "entwickeln", "gestalten",
      "appliquer", "analyser", "concevoir">>

ATTITUDE_VERBS ==
    <<"appreciate", "accept", "commit", "defend", "demonstrate commitment",
      "display", "exhibit", "internalize", "value", "behave", "act ethically",
      "show responsibility", "take responsibility", "respect", "embrace",
      "verdsette", "akseptere", "forplikte", "respektere", "vise ansvar",
      "akzeptieren", "verpflichten", "respektieren",
      "accepter", "engager", "respecter", "valoriser">>

WEAK_VERBS ==
    <<"understand", "know", "be aware", "appreciate", "be familiar",
      "have knowledge", "possess", "gain insight", "learn about",
      "kjenne til", "ha kunnskap",
      "verstehen", "kennen", "wissen", "vertraut sein",
      "comprendre", "savoir">>

\* for verb in verbs: if verb in ilo_lower: ...; break
\* the first entry of the list that occurs in the text, None when none does
FirstVerb(verbs, ilo_lower) ==
    LET hits == {i \in 1..Len(verbs) : Occurs(verbs[i], ilo_lower)}
    IN  IF hits = {} THEN None
        ELSE verbs[CHOOSE i \in hits : \A j \in hits : i <= j]

\* mutation: the Skill list is scanned before the Attitude list
DetectKsa_SkillFirst(ilo_lower) ==
    LET attitude == FirstVerb(ATTITUDE_VERBS, ilo_lower)
        skill == FirstVerb(SKILL_VERBS, ilo_lower)
        knowledge == FirstVerb(KNOWLEDGE_VERBS, ilo_lower)
    IN  IF skill # None THEN [ksa_category |-> "Skill", verb_found |-> skill]
        ELSE IF attitude # None THEN [ksa_category |-> "Attitude", verb_found |-> attitude]
        ELSE IF knowledge # None THEN [ksa_category |-> "Knowledge", verb_found |-> knowledge]
        ELSE [ksa_category |-> None, verb_found |-> None]

\* # Detect KSA category: the three loops, each run only while no category is set
DetectKsa(ilo_lower) ==
    LET attitude == FirstVerb(ATTITUDE_VERBS, ilo_lower)
        skill == FirstVerb(SKILL_VERBS, ilo_lower)
        knowledge == FirstVerb(KNOWLEDGE_VERBS, ilo_lower)
    IN  IF attitude # None THEN [ksa_category |-> "Attitude", verb_found |-> attitude]
        ELSE IF skill # None THEN [ksa_category |-> "Skill", verb_found |-> skill]
        ELSE IF knowledge # None THEN [ksa_category |-> "Knowledge", verb_found |-> knowledge]
        ELSE [ksa_category |-> None, verb_found |-> None]

\* mutation: a weak verb does not clear is_measurable
IsMeasurable_IgnoreWeak(ksa_category, has_weak_verb) == ksa_category # None

\* is_measurable starts True and is cleared when no category was set and
\* when a weak verb occurs
IsMeasurable(ksa_category, has_weak_verb) == ksa_category # None /\ ~has_weak_verb

\* mutation: the weak-verb loop does not stop at the first weak verb
QualityIssues_EveryWeak(ilo_text, ksa_category, weak) ==
    LET found == SelectSeq(WEAK_VERBS, LAMBDA verb : Occurs(verb, Lower(ilo_text)))
    IN  (IF ksa_category = None THEN <<"No clear action verb detected">> ELSE <<>>)
        \o [i \in 1..Len(found) |-> "Uses weak/vague verb: \"" \o found[i] \o "\""]
        \o (IF Len(ilo_text) < 30 THEN <<"ILO too brief - likely lacks specificity">> ELSE <<>>)

\* analysis.quality_issues, in the order the checks append to it
QualityIssues(ilo_text, ksa_category, weak) ==
    (IF ksa_category = None THEN <<"No clear action verb detected">> ELSE <<>>)
    \o (IF weak # None THEN <<"Uses weak/vague verb: \"" \o weak \o "\"">> ELSE <<>>)
    \o (IF Len(ilo_text) < 30 THEN <<"ILO too brief - likely lacks specificity">> ELSE <<>>)

\* ILOAnalyzer.analyze(ilo_text, source_language), without an embedding service
Analyze(ilo_text, source_language) ==
    LET ilo_lower == Lower(ilo_text)
        ksa == DetectKsa(ilo_lower)
        weak == FirstVerb(WEAK_VERBS, ilo_lower)
    IN  [text |-> ilo_text,
         source_language |-> source_language,
         ksa_category |-> ksa.ksa_category,
         verb_found |-> ksa.verb_found,
         has_weak_verb |-> weak # None,
         is_measurable |-> IsMeasurable(ksa.ksa_category, weak # None),
         quality_issues |-> QualityIssues(ilo_text, ksa.ksa_category, weak)]

----------------------------------------------------------------------------
(* The statements handed to ILOAnalyzer.analyze. *)

\* what a statement may say of each kind; "" leaves the kind out
AttitudePhrases == <<"", "respect others", "Value diversity", "demonstrate commitment">>
SkillPhrases == <<"", "apply models", "ANALYSE cases", "defend a thesis">>
KnowledgePhrases == <<"", "describe theory", "Understand markets", "interpret results", "know the law">>
OtherPhrases == <<"", "be aware of risk", "lead">>

\* a statement made of the chosen phrases
MakeStatement(a, s, k, o) ==
    "Students will "
    \o Join(SelectSeq(<<AttitudePhrases[a], SkillPhrases[s], KnowledgePhrases[k],
                        OtherPhrases[o]>>, LAMBDA phrase : phrase # ""), " and ")
    \o " in teams"

Statements ==
    {MakeStatement(a, s, k, o) :
        a \in 1..Len(AttitudePhrases), s \in 1..Len(SkillPhrases),
        k \in 1..Len(KnowledgePhrases), o \in 1..Len(OtherPhrases)}

SourceLanguages == {"en", "no"}

\* no ProgrammeData has been built
NoProgramme == [scraped |-> FALSE]

----------------------------------------------------------------------------
(* The state machine of one call of ILOAnalyzer.analyze. *)

AnalyzerInit ==
    /\ analysis \in {[analyzed |-> FALSE, ilo_text |-> t, source_language |-> l] :
                        t \in Statements, l \in SourceLanguages}
    /\ pc = "analyze_called"
    /\ programme = NoProgramme
    /\ gap = NoGap
    /\ call = NoCall
    /\ report = NoReport

\* analysis = self.ilo_analyzer.analyze(ilo_text, lang)
AnalyzeIlo ==
    /\ pc = "analyze_called"
    /\ analysis' = Analyze(analysis.ilo_text, analysis.source_language)
    /\ pc' = "analyze_returned"
    /\ UNCHANGED <<programme, gap, call, report>>

AnalyzerNext == AnalyzeIlo

AnalyzerSpec == AnalyzerInit /\ [][AnalyzerNext]_vars

----------------------------------------------------------------------------
(* Properties of ILOAnalyzer.analyze. *)

AnalyzeReturned == pc = "analyze_returned"

\* some entry of the list occurs in the lower-cased text
HasVerb(verbs, text) == \E i \in 1..Len(verbs) : Occurs(verbs[i], Lower(text))

\* C11: the category follows the strict priority Attitude, Skill, Knowledge:
\* a statement with an Attitude verb is Attitude whatever else it contains,
\* one with a Skill verb and no Attitude verb is Skill, one with Knowledge
\* verbs only is Knowledge, and one with no listed verb has no category
C11_KsaPriority ==
    AnalyzeReturned =>
        /\ HasVerb(ATTITUDE_VERBS, analysis.text) => analysis.ksa_category = "Attitude"
        /\ (HasVerb(SKILL_VERBS, analysis.text) /\ ~HasVerb(ATTITUDE_VERBS, analysis.text))
               => analysis.ksa_category = "Skill"
        /\ (HasVerb(KNOWLEDGE_VERBS, analysis.text) /\ ~HasVerb(SKILL_VERBS, analysis.text)
                /\ ~HasVerb(ATTITUDE_VERBS, analysis.text))
               => analysis.ksa_category = "Knowledge"
        /\ (~HasVerb(KNOWLEDGE_VERBS, analysis.text) /\ ~HasVerb(SKILL_VERBS, analysis.text)
                /\ ~HasVerb(ATTITUDE_VERBS, analysis.text))
               => analysis.ksa_category = None

\* a statement with verbs of all three lists was classified Attitude
C11_Witness ==
    /\ AnalyzeReturned
    /\ HasVerb(ATTITUDE_VERBS, analysis.text)
    /\ HasVerb(SKILL_VERBS, analysis.text)
    /\ HasVerb(KNOWLEDGE_VERBS, analysis.text)
    /\ analysis.ksa_category = "Attitude"
    /\ analysis.verb_found = "respect"

\* C12: is_measurable is false whenever a weak verb occurs or no category
\* was found; the weak-verb check also runs when a category was found, so
\* a statement with the Knowledge verb "understand" has has_weak_verb true
\* and is_measurable false
C12_Measurable ==
    AnalyzeReturned =>
        /\ analysis.has_weak_verb = HasVerb(WEAK_VERBS, analysis.text)
        /\ (analysis.has_weak_verb \/ analysis.ksa_category = None)
               => ~analysis.is_measurable
        /\ Occurs("understand", Lower(analysis.text))
               => /\ analysis.ksa_category # None
                  /\ analysis.has_weak_verb
                  /\ ~analysis.is_measurable

\* a statement classified Knowledge by "understand", weak and not measurable
C12_Witness ==
    /\ AnalyzeReturned
    /\ analysis.ksa_category = "Knowledge"
    /\ analysis.verb_found = "understand"
    /\ analysis.has_weak_verb
    /\ ~analysis.is_measurable

----------------------------------------------------------------------------
(* String operations the scraper uses. *)

\* the upper-case letter of every lower-case letter of the texts
UpperOf ==
    [a |-> "A", b |-> "B", c |-> "C", d |-> "D", e |-> "E", f |-> "F", g |-> "G",
     h |-> "H", i |-> "I", j |-> "J", k |-> "K", l |-> "L", m |-> "M", n |-> "N",
     o |-> "O", p |-> "P", q |-> "Q", r |-> "R", s |-> "S", t |-> "T", u |-> "U",
     v |-> "V", w |-> "W", x |-> "X", y |-> "Y", z |-> "Z"]

UpperChar(c) == IF c \in DOMAIN UpperOf THEN UpperOf[c] ELSE c

\* text.upper()
RECURSIVE Upper(_)
Upper(text) ==
    IF Len(text) = 0 THEN ""
    ELSE IF Len(text) = 1 THEN UpperChar(text)
    ELSE LET half == Len(text) \div 2
         IN  Upper(SubSeq(text, 1, half)) \o Upper(SubSeq(text, half + 1, Len(text)))

\* the character at position i
CharAt(text, i) == SubSeq(text, i, i)

\* str.isspace() of one character
IsSpace(c) == c \in {" ", "\t", "\n", "\r"}

\* text.strip()
Strip(text) ==
    LET kept == {i \in 1..Len(text) : ~IsSpace(CharAt(text, i))}
    IN  IF kept = {} THEN ""
        ELSE SubSeq(text, CHOOSE i \in kept : \A j \in kept : i <= j,
                          CHOOSE i \in kept : \A j \in kept : i >= j)

\* text.find(sub) + 1: the first position where sub occurs, 0 when it does not
Find(text, sub) ==
    LET at == {i \in 1..(Len(text) - Len(sub) + 1) : SubSeq(text, i, i + Len(sub) - 1) = sub}
    IN  IF at = {} THEN 0 ELSE CHOOSE i \in at : \A j \in at : i <= j

\* text.split(sep)[0]
SplitFirst(text, sep) ==
    IF Find(text, sep) = 0 THEN text ELSE SubSeq(text, 1, Find(text, sep) - 1)

\* text.replace(old, new): every occurrence, scanning from the left
RECURSIVE Replace(_, _, _)
Replace(text, old, new) ==
    IF Len(text) < Len(old) THEN text
    ELSE IF SubSeq(text, 1, Len(old)) = old
         THEN new \o Replace(SubSeq(text, Len(old) + 1, Len(text)), old, new)
         ELSE CharAt(text, 1) \o Replace(SubSeq(text, 2, Len(text)), old, new)

\* text.lower().endswith(suffix)
EndsWith(text, suffix) ==
    Len(text) >= Len(suffix)
    /\ SubSeq(text, Len(text) - Len(suffix) + 1, Len(text)) = suffix

\* the characters a URL scheme is made of
SchemeChars ==
    (DOMAIN LowerOf) \cup (DOMAIN UpperOf)
    \cup {"0", "1", "2", "3", "4", "5", "6", "7", "8", "9", "+", "-", "."}

\* urlparse(url).netloc: after a scheme, if there is one, a leading "//"
\* opens the network location, which ends before the next "/", "?" or "#"
Netloc(url) ==
    LET colon == Find(url, ":")
        scheme == colon > 1
                  /\ \A i \in 1..(colon - 1) : CharAt(url, i) \in SchemeChars
        rest == IF scheme THEN SubSeq(url, colon + 1, Len(url)) ELSE url
        ends == {i \in 3..Len(rest) : CharAt(rest, i) \in {"/", "?", "#"}}
    IN  IF SubSeq(rest, 1, Min(2, Len(rest))) # "//" THEN ""
        ELSE IF ends = {} THEN SubSeq(rest, 3, Len(rest))
        ELSE SubSeq(rest, 3, (CHOOSE i \in ends : \A j \in ends : i <= j) - 1)

----------------------------------------------------------------------------
(* The site parsers and EFMDScraper.get_parser. *)

\* NorwegianUniversityParser.DOMAINS
NorwegianDomains ==
    <<"uia.no", "ntnu.no", "nhh.no", "bi.no", "uio.no", "uib.no", "uit.no", "usn.no">>

\* FinnishUniversityParser.DOMAINS
FinnishDomains == <<"uwasa.fi", "aalto.fi", "hanken.fi", "helsinki.fi", "utu.fi">>

\* self.parsers, in declaration order
parsers == <<"NorwegianUniversityParser", "FinnishUniversityParser", "GenericParser">>

\* domain = urlparse(url).netloc.replace('www.', '')
Domain(url) == Replace(Netloc(url), "www.", "")

\* parser.can_parse(url)
CanParse(parser, url) ==
    CASE parser = "NorwegianUniversityParser" ->
            \E i \in 1..Len(NorwegianDomains) : Occurs(NorwegianDomains[i], Domain(url))
      [] parser = "FinnishUniversityParser" ->
            \E i \in 1..Len(FinnishDomains) : Occurs(FinnishDomains[i], Domain(url))
      [] parser = "GenericParser" -> TRUE

\* mutation: the last parser that can parse the URL is returned
GetParser_Last(url) ==
    LET able == {i \in 1..Len(parsers) : CanParse(parsers[i], url)}
    IN  IF able = {} THEN parsers[Len(parsers)]
        ELSE parsers[CHOOSE i \in able : \A j \in able : i >= j]

\* get_parser(url): the first parser of the list that can parse the URL,
\* the last of the list when none can
GetParser(url) ==
    LET able == {i \in 1..Len(parsers) : CanParse(parsers[i], url)}
    IN  IF able = {} THEN parsers[Len(parsers)]
        ELSE parsers[CHOOSE i \in able : \A j \in able : i <= j]

\* the URLs handed to get_parser: with and without a scheme, Norwegian,
\* Finnish and other hosts, with and without a path
DispatchUrls ==
    {scheme \o host \o path :
        scheme \in {"https://", "http://", ""},
        host \in {"www.uia.no", "bi.no", "www.nhh.no", "studies.uib.no", "www.aalto.fi",
                  "hanken.fi", "uia.no.aalto.fi", "example.edu", "www.example.edu"},
        path \in {"", "/en/programme", "/no/studier?lang=no", "/uia.no/master"}}

\* the state machine of one call of get_parser
DispatchInit ==
    /\ call \in {[called |-> TRUE, url |-> url] : url \in DispatchUrls}
    /\ pc = "get_parser_called"
    /\ programme = NoProgramme
    /\ gap = NoGap
    /\ analysis = NoAnalysis
    /\ report = NoReport

\* parser = self.get_parser(url)
CallGetParser ==
    /\ pc = "get_parser_called"
    /\ call' = [called |-> TRUE, url |-> call.url, parser |-> GetParser(call.url)]
    /\ pc' = "get_parser_returned"
    /\ UNCHANGED <<programme, gap, analysis, report>>

DispatchNext == CallGetParser

DispatchSpec == DispatchInit /\ [][DispatchNext]_vars

\* the position of a parser in self.parsers
ParserIndex(parser) == CHOOSE i \in 1..Len(parsers) : parsers[i] = parser

\* C18: get_parser returns a parser for every URL: the first one in the
\* declaration order Norwegian, Finnish, Generic whose can_parse(url) is
\* true; the generic parser is the last of the list and can parse every URL
C18_Dispatch ==
    pc = "get_parser_returned" =>
        /\ call.parser \in Range(parsers)
        /\ CanParse(call.parser, call.url)
        /\ \A i \in 1..(ParserIndex(call.parser) - 1) : ~CanParse(parsers[i], call.url)
        /\ parsers = <<"NorwegianUniversityParser", "FinnishUniversityParser",
                       "GenericParser">>
        /\ CanParse(parsers[Len(parsers)], call.url)

\* a URL both site parsers can parse went to the Norwegian parser
C18_Witness ==
    /\ pc = "get_parser_returned"
    /\ CanParse("NorwegianUniversityParser", call.url)
    /\ CanParse("FinnishUniversityParser", call.url)
    /\ call.parser = "NorwegianUniversityParser"

----------------------------------------------------------------------------
(* Language variants of a URL and the URL list scrape_programme fetches. *)

\* the patterns of find_language_variants: <<pattern_from, pattern_to>>
patterns ==
    << <<"/en/", "/no/">>, <<"/no/", "/en/">>, <<"/en/", "/de/">>, <<"/de/", "/en/">>,
       <<"/en/", "/fr/">>, <<"/fr/", "/en/">>, <<"/en/", "/fi/">>, <<"/fi/", "/en/">>,
       <<"?lang=en", "?lang=no">>, <<"?lang=no", "?lang=en">>,
       <<"/english/", "/norwegian/">>, <<"/norwegian/", "/english/">> >>

\* the entries of a list in order, each kept at its first occurrence only:
\* what `if x not in result: result.append(x)` builds
RECURSIVE DedupFirst(_)
DedupFirst(xs) ==
    IF Len(xs) = 0 THEN <<>>
    ELSE LET front == DedupFirst(SubSeq(xs, 1, Len(xs) - 1))
         IN  IF xs[Len(xs)] \in Range(front) THEN front ELSE Append(front, xs[Len(xs)])

\* the lists of a list, one after the other
RECURSIVE Flatten(_)
Flatten(lists) ==
    IF Len(lists) = 0 THEN <<>> ELSE Head(lists) \o Flatten(Tail(lists))

\* find_language_variants(url): the URL, then one variant per pattern whose
\* pattern_from occurs in it, none of them twice
FindLanguageVariants(url) ==
    LET matching == SelectSeq(patterns, LAMBDA pattern : Occurs(pattern[1], url))
    IN  DedupFirst(<<url>> \o [k \in 1..Len(matching) |->
                                 Replace(url, matching[k][1], matching[k][2])])

\* mutation: a URL that is already in the expanded list is added again
ExpandUrls_NoDedup(url_list) ==
    Flatten([k \in 1..Len(url_list) |-> FindLanguageVariants(url_list[k])])

\* expanded: the variants of every URL of the list, in list order, each
\* appended unless it is already there
ExpandUrls(url_list) ==
    DedupFirst(Flatten([k \in 1..Len(url_list) |-> FindLanguageVariants(url_list[k])]))

----------------------------------------------------------------------------
(* The web the scraper fetches from, and scrape_url. *)

\* the pages that exist: the title tag, the list items under the outcome
\* headings, the visible text and the markup of each
Pages ==
    << [url |-> "https://www.uia.no/en/studies/finance",
        title |-> "MSc Finance - University of Agder | UiA",
        items |-> <<"Apply valuation models to real cases",
                    " describe capital market theory in depth ",
                    "Lede team i praksis">>,
        text |-> "Kandidaten kan anvende modeller. Curriculum map available.",
        html |-> "<html>uia-en</html>"],
       [url |-> "https://www.uia.no/no/studies/finance",
        title |-> "| UiA",
        items |-> <<"APPLY VALUATION MODELS TO REAL CASES",
                    "Respect ethical standards in finance">>,
        text |-> "Studiet gir global innsikt.",
        html |-> "<html>uia-no</html>"],
       [url |-> "https://example.edu/en/programme",
        title |-> "",
        items |-> <<"Describe capital market theory in depth",
                    "Plan a small project",
                    "Describe capital market theory in depth">>,
        text |-> "Students work with industry partners.",
        html |-> "<html>ex-en</html>"],
       [url |-> "https://example.edu/no/programme",
        title |-> "Global Business Programme | Example",
        items |-> <<"Understand international business ethics">>,
        text |-> "Studenten skal kunne etikk.",
        html |-> "<html>ex-no</html>"],
       [url |-> "https://www.hanken.fi/programme?lang=en",
        title |-> " MBA Executive - Hanken ",
        items |-> <<"Evaluate digital strategy", "apply valuation models to real cases">>,
        text |-> "Opintojaksot and sustainability.",
        html |-> "<html>hanken</html>"] >>

\* the page a server sends with a status that carries no content
EmptyPage(url) == [url |-> url, title |-> "", items |-> <<>>, text |-> "", html |-> ""]

\* what requests.get(url) and the parsing of its body may do: an exception
\* of requests.get, or a response with a status and a body, whose parsing
\* may raise
Response(exception, status, page, parse_exception) ==
    [exception |-> exception, status |-> status, page |-> page,
     parse_exception |-> parse_exception]

Responses(url) ==
    LET known == {k \in 1..Len(Pages) : Pages[k].url = url}
    IN  IF known # {}
        THEN LET page == Pages[CHOOSE k \in known : TRUE]
             IN  {Response(None, 200, page, None),
                  Response("Connection refused", 0, EmptyPage(url), None),
                  Response("Read timed out. (read timeout=30)", 0, EmptyPage(url), None),
                  Response(None, 503, EmptyPage(url), None),
                  Response(None, 200, page, "'NoneType' object is not callable")}
        ELSE IF Occurs("?lang=no", url)
        THEN {Response(None, 404, EmptyPage(url), None),
              Response(None, 300, EmptyPage(url), None)}
        ELSE {Response(None, 404, EmptyPage(url), None)}

\* the language a parser reports for a page text
Language(parser, text) ==
    LET lower == Lower(text)
    IN  CASE parser = "NorwegianUniversityParser" -> "no"
          [] parser = "FinnishUniversityParser" ->
                IF Occurs("osaamistavoitteet", lower) \/ Occurs("opintojaksot", lower)
                THEN "fi" ELSE "en"
          [] parser = "GenericParser" ->
                IF Occurs("studenten", lower) \/ Occurs("kandidaten", lower) THEN "no"
                ELSE IF Occurs("lernergebnisse", lower) \/ Occurs("studierende", lower)
                THEN "de"
                ELSE IF Occurs("objectifs", lower) THEN "fr"
                ELSE "en"

\* parser.parse(html, url): the title stripped; the list items stripped and
\* kept when longer than the parser's limit (the generic parser keeps each
\* text once); no parser fills courses
Parse(parser, page) ==
    LET stripped == [k \in 1..Len(page.items) |-> Strip(page.items[k])]
        limit == IF parser = "GenericParser" THEN 20 ELSE 15
        long == SelectSeq(stripped, LAMBDA text : Len(text) > limit)
    IN  [title |-> Strip(page.title),
         ilos |-> IF parser = "GenericParser" THEN DedupFirst(long) ELSE long,
         courses |-> <<>>,
         text |-> page.text,
         language |-> Language(parser, page.text)]

\* resp.raise_for_status() raises for the client and server error statuses
RaisesForStatus(status) == status >= 400 /\ status < 600

\* mutation: the failure record carries no reason
ScrapeUrl_NoReason(url, response) ==
    IF response.exception # None \/ RaisesForStatus(response.status)
       \/ response.parse_exception # None
    THEN [url |-> url, success |-> FALSE]
    ELSE Parse(GetParser(url), response.page)
         @@ [url |-> url, html |-> response.page.html, success |-> TRUE]

\* scrape_url(url): every exception of the fetch, the status check and the
\* parsing is caught and returned as a failure record
ScrapeUrl(url, response) ==
    IF response.exception # None
    THEN [url |-> url, success |-> FALSE, error |-> response.exception]
    ELSE IF RaisesForStatus(response.status)
    THEN [url |-> url, success |-> FALSE,
          error |-> ToString(response.status) \o " Error for url: " \o url]
    ELSE IF response.parse_exception # None
    THEN [url |-> url, success |-> FALSE, error |-> response.parse_exception]
    ELSE Parse(GetParser(url), response.page)
         @@ [url |-> url, html |-> response.page.html, success |-> TRUE]

----------------------------------------------------------------------------
(* Uploaded documents: extract_document_text and _extract_ilos_from_text. *)

\* the text of the documents that can be read
DocumentTexts ==
    [txt |-> "Evaluate investment projects under uncertainty.\n- Apply valuation models to real cases\nShort line.",
     pdf |-> "1. Respect ethical standards in finance! 2. Students discuss the role of banks.",
     docx |-> "12345 - * Use the ledger daily\r\nCreate sustainable business models and defend them"]

\* what reading a file may do: raise, or give its text
Reads(file_path) ==
    LET lower == Lower(file_path)
        text == IF EndsWith(lower, ".pdf") THEN DocumentTexts.pdf
                ELSE IF EndsWith(lower, ".docx") THEN DocumentTexts.docx
                ELSE DocumentTexts.txt
    IN  {[exception |-> None, text |-> text],
         [exception |-> "[Errno 2] No such file or directory: '" \o file_path \o "'",
          text |-> ""]}

\* mutation: an unsupported format is reported without a reason
ExtractDocumentText_NoReason(file_path, libraries, read) ==
    LET result == [path |-> file_path, text |-> "", success |-> FALSE, error |-> None]
        lower == Lower(file_path)
        extracted == IF read.exception # None
                     THEN [result EXCEPT !.error = read.exception]
                     ELSE [result EXCEPT !.text = read.text, !.success = TRUE]
    IN  IF EndsWith(lower, ".pdf")
        THEN IF ~libraries.HAS_PYPDF
             THEN [result EXCEPT !.error = "pypdf not installed"]
             ELSE extracted
        ELSE IF EndsWith(lower, ".docx")
        THEN IF ~libraries.HAS_DOCX
             THEN [result EXCEPT !.error = "python-docx not installed"]
             ELSE extracted
        ELSE IF EndsWith(lower, ".txt")
        THEN extracted
        ELSE result

\* extract_document_text(file_path), with the format libraries that are
\* installed and what reading the file does
ExtractDocumentText(file_path, libraries, read) ==
    LET result == [path |-> file_path, text |-> "", success |-> FALSE, error |-> None]
        lower == Lower(file_path)
        extracted == IF read.exception # None
                     THEN [result EXCEPT !.error = read.exception]
                     ELSE [result EXCEPT !.text = read.text, !.success = TRUE]
    IN  IF EndsWith(lower, ".pdf")
        THEN IF ~libraries.HAS_PYPDF
             THEN [result EXCEPT !.error = "pypdf not installed"]
             ELSE extracted
        ELSE IF EndsWith(lower, ".docx")
        THEN IF ~libraries.HAS_DOCX
             THEN [result EXCEPT !.error = "python-docx not installed"]
             ELSE extracted
        ELSE IF EndsWith(lower, ".txt")
        THEN extracted
        ELSE [result EXCEPT !.error = "Unsupported format: " \o file_path]

\* re.split(r'[\n\r]+|(?<=[.!?])\s+', text): a line ends at a run of line
\* breaks, and at a run of white space that follows ".", "!" or "?"
RECURSIVE SplitLines(_)
SplitLines(text) ==
    LET breaks == {i \in 1..Len(text) :
                      \/ CharAt(text, i) \in {"\n", "\r"}
                      \/ i > 1 /\ IsSpace(CharAt(text, i))
                               /\ CharAt(text, i - 1) \in {".", "!", "?"}}
    IN  IF breaks = {} THEN <<text>>
        ELSE LET first == CHOOSE i \in breaks : \A j \in breaks : i <= j
                 newline == CharAt(text, first) \in {"\n", "\r"}
                 run == {i \in first..Len(text) :
                            \A j \in first..i :
                                IF newline THEN CharAt(text, j) \in {"\n", "\r"}
                                ELSE IsSpace(CharAt(text, j))}
                 last == CHOOSE i \in run : \A j \in run : i >= j
             IN  <<SubSeq(text, 1, first - 1)>>
                 \o SplitLines(SubSeq(text, last + 1, Len(text)))

\* re.sub(r'^[\d\-\*\s]+', '', line).strip(): the line without its leading
\* digits, dashes, asterisks and white space
Clean(line) ==
    LET bullet == {"0", "1", "2", "3", "4", "5", "6", "7", "8", "9", "-", "*"}
        body == {i \in 1..Len(line) :
                    ~(CharAt(line, i) \in bullet \/ IsSpace(CharAt(line, i)))}
    IN  IF body = {} THEN ""
        ELSE Strip(SubSeq(line, CHOOSE i \in body : \A j \in body : i <= j, Len(line)))

\* _extract_ilos_from_text(text): the stripped lines of 25 to 500
\* characters that hold a listed verb, cleaned, each once
ExtractIlosFromText(text) ==
    LET split == SplitLines(text)
        lines == [k \in 1..Len(split) |-> Strip(split[k])]
        kept == SelectSeq(lines, LAMBDA line :
                    /\ ~(Len(line) < 25 \/ Len(line) > 500)
                    /\ HasVerb(KNOWLEDGE_VERBS \o SKILL_VERBS \o ATTITUDE_VERBS, line))
        cleaned == [k \in 1..Len(kept) |-> Clean(kept[k])]
    IN  DedupFirst(SelectSeq(cleaned, LAMBDA clean : clean # ""))

----------------------------------------------------------------------------
(* EFMDScraper.scrape_programme. *)

\* `not value` for an optional string
Falsy(value) == value = None \/ value = ""

\* mutation: the deduplication key keeps the case of the text
Key_KeepCase(ilo_text) == Strip(ilo_text)

\* key = ilo_text.lower().strip()
Key(ilo_text) == Strip(Lower(ilo_text))

\* # Deduplicate ILOs: a <<text, language>> pair is kept when its key was
\* not seen on a kept pair before and its text is longer than 20 characters
RECURSIVE UniqueIlos(_)
UniqueIlos(all_ilos) ==
    IF Len(all_ilos) = 0 THEN <<>>
    ELSE LET unique_ilos == UniqueIlos(SubSeq(all_ilos, 1, Len(all_ilos) - 1))
             ilo_text == all_ilos[Len(all_ilos)][1]
             seen == {Key(unique_ilos[k][1]) : k \in 1..Len(unique_ilos)}
         IN  IF Key(ilo_text) \notin seen /\ Len(ilo_text) > 20
             THEN Append(unique_ilos, all_ilos[Len(all_ilos)])
             ELSE unique_ilos

\* mutation: a later title replaces the detected one
DetectTitle_Last(detected_title, title) == title

\* if not detected_title: detected_title = result.get('title', '')
DetectTitle(detected_title, title) ==
    IF detected_title = "" THEN title ELSE detected_title

\* the body of the URL loop for one result of scrape_url
AggregateUrl(frame, result) ==
    IF result.success
    THEN [result |-> result] @@
         [frame EXCEPT
            !.scraped_urls = Append(@, result.url),
            !.all_text = @ \o " " \o result.text,
            !.all_html = @ \o result.html,
            !.detected_title = DetectTitle(@, result.title),
            !.languages = IF result.language \in Range(@) THEN @
                          ELSE Append(@, result.language),
            !.all_ilos = @ \o [k \in 1..Len(result.ilos) |->
                                 <<result.ilos[k], result.language>>],
            !.all_courses = @ \o result.courses]
    ELSE [result |-> result] @@ frame

\* the body of the document loop for one result of extract_document_text
AggregateDocument(frame, result) ==
    IF result.success
    THEN LET doc_ilos == ExtractIlosFromText(result.text)
         IN  [result |-> result] @@
             [frame EXCEPT
                !.all_text = @ \o " " \o result.text,
                !.all_ilos = @ \o [k \in 1..Len(doc_ilos) |-> <<doc_ilos[k], "en">>]]
    ELSE [result |-> result] @@ frame

\* institution = urlparse(url).netloc.replace('www.', '').split('.')[0].upper()
DomainToken(url) == Upper(SplitFirst(Domain(url), "."))

\* programme_name = detected_title.split('|')[0].split('-')[0].strip()
\*                  or "Unknown Programme"
TitleName(detected_title) ==
    LET segment == Strip(SplitFirst(SplitFirst(detected_title, "|"), "-"))
    IN  IF segment = "" THEN "Unknown Programme" ELSE segment

\* # Detect degree type
DegreeType(programme_name) ==
    LET name_lower == Lower(programme_name)
    IN  IF Occurs("mba", name_lower) THEN "MBA"
        ELSE IF Occurs("msc", name_lower) \/ Occurs("master", name_lower) THEN "MSc"
        ELSE IF Occurs("bsc", name_lower) \/ Occurs("bachelor", name_lower) THEN "BSc"
        ELSE IF Occurs("phd", name_lower) \/ Occurs("doctor", name_lower) THEN "PhD"
        ELSE None

\* # Check for ILO matrix mention
MentionsMatrix(all_text) ==
    \E term \in {"learning outcome matrix", "ilo matrix", "curriculum map",
                 "programme map"} : Occurs(term, Lower(all_text))

\* the ProgrammeData scrape_programme builds from its local variables
BuildProgramme(frame, institution, programme_name) ==
    LET unique_ilos == UniqueIlos(frame.all_ilos)
        analyzed_ilos == [k \in 1..Len(unique_ilos) |->
                            Analyze(unique_ilos[k][1], unique_ilos[k][2])]
    IN  ProgrammeData([programme_name |-> programme_name,
                       degree_type |-> DegreeType(programme_name),
                       programme_aims |-> <<>>],
                      analyzed_ilos, <<>>, frame.all_text,
                      MentionsMatrix(frame.all_text))
        @@ [institution |-> institution,
            primary_url |-> frame.primary_url,
            urls_scraped |-> frame.scraped_urls,
            languages_of_instruction |-> frame.languages,
            raw_html |-> frame.all_html,
            scrape_notes |-> <<>>]

----------------------------------------------------------------------------
(* The calls of scrape_programme and its state machine. *)

\* the urls argument as a list: a single URL given as a string is the
\* one-element list
UrlArguments ==
    {list \in
        {<<>>,
         <<Pages[1].url>>,
         <<Pages[3].url>>,
         <<Pages[3].url, Pages[1].url>>,
         <<Pages[1].url, Pages[3].url>>,
         <<Pages[4].url, Pages[3].url>>,
         <<Pages[5].url, Pages[5].url>>,
         <<Pages[3].url, Pages[5].url, Pages[2].url>>,
         <<Pages[5].url, Pages[2].url, Pages[4].url, Pages[2].url>>} :
        Len(list) <= MaxUrls}

\* the documents argument; None and the empty list both skip the loop
DocumentArguments ==
    {list \in
        {<<"notes.odt", "outcomes.txt">>,
         <<"Handbook.PDF", "outcomes.txt">>,
         <<"plan.docx">>,
         <<"plan.docx", "notes.odt", "Handbook.PDF">>} :
        Len(list) <= MaxDocs}

\* scrape_programme(urls, institution, programme_name, documents,
\* follow_variants), in a process with the given format libraries
Call(urls, institution, programme_name, documents, follow_variants, libraries) ==
    [called |-> TRUE, urls |-> urls, institution |-> institution,
     programme_name |-> programme_name, documents |-> documents,
     follow_variants |-> follow_variants, libraries |-> libraries]

\* the calls: every URL argument with and without institution, programme
\* name and variants, and every document list with every set of libraries
Calls ==
    {Call(urls, institution, programme_name, <<>>, follow_variants,
          [HAS_PYPDF |-> TRUE, HAS_DOCX |-> TRUE]) :
        urls \in UrlArguments, institution \in {None, "UiA"},
        programme_name \in {None, "Bachelor of Finance"},
        follow_variants \in BOOLEAN}
    \cup
    {Call(url_list, institution, None, documents, FALSE,
          [HAS_PYPDF |-> pypdf, HAS_DOCX |-> docx]) :
        url_list \in {<<>>, <<Pages[1].url>>}, institution \in {None, "UiA"},
        documents \in DocumentArguments, pypdf \in BOOLEAN, docx \in BOOLEAN}

ScraperInit ==
    /\ call \in Calls
    /\ pc = "called"
    /\ programme = NoProgramme
    /\ gap = NoGap
    /\ analysis = NoAnalysis
    /\ report = NoReport

\* # Normalize urls to list, # Add language variants if requested, and the
\* initial values of the local variables; attempted and extracted record
\* the arguments scrape_url and extract_document_text were called with,
\* response what the last fetch met, result what the last of the two returned
BeginScrape ==
    /\ pc = "called"
    /\ LET url_list == call.urls
       IN  call' = call @@
             [primary_url |-> IF Len(url_list) > 0 THEN url_list[1] ELSE "",
              url_list |-> IF call.follow_variants THEN ExpandUrls(url_list) ELSE url_list,
              all_ilos |-> <<>>, all_courses |-> <<>>, all_text |-> "", all_html |-> "",
              languages |-> <<>>, scraped_urls |-> <<>>, detected_title |-> "",
              attempted |-> <<>>, extracted |-> <<>>]
    /\ pc' = "scraping"
    /\ UNCHANGED <<programme, gap, analysis, report>>

\* one iteration of `for scrape_url in url_list`
FetchUrl ==
    /\ pc = "scraping"
    /\ Len(call.attempted) < Len(call.url_list)
    /\ LET url == call.url_list[Len(call.attempted) + 1]
       IN  \E response \in Responses(url) :
              call' = [response |-> response] @@
                      [AggregateUrl(call, ScrapeUrl(url, response))
                          EXCEPT !.attempted = Append(@, url)]
    /\ UNCHANGED <<programme, gap, pc, analysis, report>>

\* one iteration of `for doc_path in documents`
ExtractDocument ==
    /\ pc = "scraping"
    /\ Len(call.attempted) = Len(call.url_list)
    /\ Len(call.extracted) < Len(call.documents)
    /\ LET doc_path == call.documents[Len(call.extracted) + 1]
       IN  \E read \in Reads(doc_path) :
              call' = [AggregateDocument(call,
                          ExtractDocumentText(doc_path, call.libraries, read))
                          EXCEPT !.extracted = Append(@, doc_path)]
    /\ UNCHANGED <<programme, gap, pc, analysis, report>>

\* the loops are over
LoopsDone ==
    /\ pc = "scraping"
    /\ Len(call.attempted) = Len(call.url_list)
    /\ Len(call.extracted) = Len(call.documents)

\* line 1030 reads the name url, which is neither a local variable of
\* scrape_programme nor a global of the module: without an institution the
\* call ends with a NameError
RaiseNameError ==
    /\ LoopsDone
    /\ Falsy(call.institution)
    /\ call' = call @@ [exception |-> "NameError: name 'url' is not defined"]
    /\ pc' = "raised"
    /\ UNCHANGED <<programme, gap, analysis, report>>

\* the rest of scrape_programme: deduplication, analysis, the programme
\* name, the degree type and the ProgrammeData that is returned
ReturnProgramme ==
    /\ LoopsDone
    /\ ~Falsy(call.institution)
    /\ programme' = BuildProgramme(call, call.institution,
                        IF Falsy(call.programme_name)
                        THEN TitleName(call.detected_title)
                        ELSE call.programme_name)
    /\ pc' = "scraped"
    /\ UNCHANGED <<gap, analysis, call, report>>

ScraperNext ==
    \/ BeginScrape
    \/ FetchUrl
    \/ ExtractDocument
    \/ RaiseNameError
    \/ ReturnProgramme
    \/ AnalyzeGaps

ScraperSpec == ScraperInit /\ [][ScraperNext]_vars

----------------------------------------------------------------------------
(* Properties of scrape_programme. *)

\* scrape_programme has returned its ProgrammeData
Returned == pc \in {"scraped", "analyzed"}

\* how many ILOAnalysis entries of the returned programme have the
\* lower-cased, trimmed text of the candidate
EntriesFor(candidate) ==
    Cardinality({j \in 1..Len(programme.programme_ilos) :
                    Strip(Lower(programme.programme_ilos[j].text)) = Strip(Lower(candidate))})

\* no two entries of programme_ilos have the same lower-cased, trimmed text
NoDuplicateIlos ==
    \A i, j \in 1..Len(programme.programme_ilos) :
        Strip(Lower(programme.programme_ilos[i].text))
            = Strip(Lower(programme.programme_ilos[j].text)) => i = j

\* C13 as stated: no two entries of programme_ilos have the same
\* lower-cased, trimmed text, and every candidate text gathered from the
\* pages and documents yields exactly one ILOAnalysis
C13_EveryCandidateOnce ==
    Returned =>
        /\ NoDuplicateIlos
        /\ \A k \in 1..Len(call.all_ilos) : EntriesFor(call.all_ilos[k][1]) = 1

\* C13, amended: no two entries of programme_ilos have the same
\* lower-cased, trimmed text; every candidate text of more than 20
\* characters yields exactly one ILOAnalysis, however many case variants of
\* it were gathered, and a candidate of at most 20 characters yields none
C13_Deduplication ==
    Returned =>
        /\ NoDuplicateIlos
        /\ \A k \in 1..Len(call.all_ilos) :
              EntriesFor(call.all_ilos[k][1])
                  = IF Len(call.all_ilos[k][1]) > 20 THEN 1 ELSE 0

\* three case variants of one text were gathered and one entry was made of
\* them, and a candidate of 19 characters was gathered and dropped
C13_Witness ==
    /\ Returned
    /\ Cardinality({call.all_ilos[k][1] : k \in
           {k \in 1..Len(call.all_ilos) :
               Lower(call.all_ilos[k][1]) = "apply valuation models to real cases"}}) = 3
    /\ EntriesFor("apply valuation models to real cases") = 1
    /\ \E k \in 1..Len(call.all_ilos) : call.all_ilos[k][1] = "Lede team i praksis"
    /\ EntriesFor("Lede team i praksis") = 0

\* scrape_programme has ended, by returning or by raising
Ended == pc \in {"raised", "scraped", "analyzed"}

\* what parsing the page of a successfully fetched URL gives
PageResult(url) ==
    LET known == {k \in 1..Len(Pages) : Pages[k].url = url}
    IN  Parse(GetParser(url),
              IF known = {} THEN EmptyPage(url) ELSE Pages[CHOOSE k \in known : TRUE])

\* the <<text, language>> pairs of the pages of the given URLs, in order
PageIlos(urls) ==
    Flatten([k \in 1..Len(urls) |->
                LET result == PageResult(urls[k])
                IN  [n \in 1..Len(result.ilos) |-> <<result.ilos[n], result.language>>]])

\* xs is ys with some entries left out
RECURSIVE IsSubSeq(_, _)
IsSubSeq(xs, ys) ==
    IF Len(xs) = 0 THEN TRUE
    ELSE IF Len(ys) = 0 THEN FALSE
    ELSE IF Head(xs) = Head(ys) THEN IsSubSeq(Tail(xs), Tail(ys))
    ELSE IsSubSeq(xs, Tail(ys))

\* C14: with follow_variants the URLs scrape_programme fetches are every
\* supplied URL and every variant got by substituting a known marker (the
\* /en/ page of example.edu brings its /no/ page), none of them twice; a
\* URL whose fetch fails is skipped: what is collected is what the pages of
\* the URLs that succeeded give
C14_Variants ==
    (pc # "called" /\ call.follow_variants) =>
        /\ \A k \in 1..Len(call.urls) :
              /\ call.urls[k] \in Range(call.url_list)
              /\ \A n \in 1..Len(patterns) :
                    Occurs(patterns[n][1], call.urls[k])
                        => Replace(call.urls[k], patterns[n][1], patterns[n][2])
                               \in Range(call.url_list)
        /\ "https://example.edu/en/programme" \in Range(call.urls)
              => "https://example.edu/no/programme" \in Range(call.url_list)
        /\ call.attempted = SubSeq(call.url_list, 1, Len(call.attempted))
        /\ Ended => call.attempted = call.url_list
        /\ \A i, j \in 1..Len(call.attempted) :
              call.attempted[i] = call.attempted[j] => i = j
        /\ IsSubSeq(call.scraped_urls, call.attempted)
        /\ call.all_ilos = PageIlos(call.scraped_urls)

\* the /en/ page of example.edu was supplied alone; its five variants were
\* fetched, three of them failed, and the two pages that exist were collected
C14_Witness ==
    /\ Ended
    /\ call.follow_variants
    /\ call.urls = <<"https://example.edu/en/programme">>
    /\ Len(call.attempted) = 5
    /\ "https://example.edu/de/programme" \in Range(call.attempted)
    /\ call.scraped_urls = <<"https://example.edu/en/programme",
                             "https://example.edu/no/programme">>
    /\ Len(call.all_ilos) = 2

\* the last call that returned into result was scrape_url
LastWasFetch == HasAttr(call, "result") /\ HasAttr(call.result, "url")

\* a failure record that carries a reason
IsFailureRecord(result) ==
    /\ ~result.success
    /\ HasAttr(result, "error")
    /\ result.error # None
    /\ Len(result.error) > 0

\* every URL of the list is fetched, in list order, whatever the fetches did
EveryUrlAttempted ==
    pc # "called" =>
        /\ call.attempted = SubSeq(call.url_list, 1, Len(call.attempted))
        /\ Ended => call.attempted = call.url_list

C16_AlwaysReturns ==
    /\ pc # "raised"
    /\ Ended => Returned
    /\ (Returned /\ Len(call.all_ilos) = 0) =>
          /\ Len(programme.programme_ilos) = 0
          /\ Len(programme.courses) = 0
    /\ (pc = "analyzed" /\ Len(programme.programme_ilos) = 0) =>
          /\ gap.readiness_score < 40
          /\ ~gap.eligibility_pass

\* C17: without an institution the returned institution is the upper-cased
\* first domain token of the URL, "www." removed; without a programme name
\* the returned programme_name is the first segment of the detected title
\* split on "|" and "-"
C17_DerivedNames ==
    Ended =>
        /\ Falsy(call.institution) =>
              /\ Returned
              /\ programme.institution = DomainToken(call.primary_url)
        /\ (Falsy(call.programme_name) /\ Returned) =>
              programme.programme_name
                  = Strip(SplitFirst(SplitFirst(call.detected_title, "|"), "-"))

\* the last call that returned into result was extract_document_text
LastWasDocument == HasAttr(call, "result") /\ HasAttr(call.result, "path")

\* the file name ends with the extension, in any case
HasExtension(file_path, extension) == EndsWith(Lower(file_path), extension)

\* C19: extract_document_text returns a record for any file name, missing
\* library or read failure: success comes with error None, failure with a
\* reason (unsupported format, library not installed, or the exception
\* text); scrape_programme skips a failed document and still processes the
\* documents after it
C19_DocumentResult ==
    /\ pc # "called" =>
          /\ call.extracted = SubSeq(call.documents, 1, Len(call.extracted))
          /\ Ended => call.extracted = call.documents
    /\ LastWasDocument =>
          /\ call.result.path = call.extracted[Len(call.extracted)]
          /\ call.result.success => call.result.error = None
          /\ ~call.result.success =>
                /\ call.result.error # None
                /\ call.result.text = ""
                /\ call.result.error \in
                      {"Unsupported format: " \o call.result.path,
                       "pypdf not installed", "python-docx not installed",
                       "[Errno 2] No such file or directory: '" \o call.result.path \o "'"}
          /\ (HasExtension(call.result.path, ".pdf") /\ ~call.libraries.HAS_PYPDF)
                => call.result.error = "pypdf not installed"
          /\ (HasExtension(call.result.path, ".docx") /\ ~call.libraries.HAS_DOCX)
                => call.result.error = "python-docx not installed"
          /\ (\A extension \in {".pdf", ".docx", ".txt"} :
                 ~HasExtension(call.result.path, extension))
                => call.result.error = "Unsupported format: " \o call.result.path
          /\ (~call.result.success /\ Len(call.extracted) = 1)
                => call.all_ilos = PageIlos(call.scraped_urls)

\* the first document had an unsupported format and was skipped, the
\* second one was read and its outcomes collected
C19_Witness ==
    /\ Ended
    /\ call.documents = <<"notes.odt", "outcomes.txt">>
    /\ LastWasDocument
    /\ call.result.path = "outcomes.txt"
    /\ call.result.success
    /\ call.result.error = None
    /\ Len(call.all_ilos) > Len(PageIlos(call.scraped_urls))

\* the place of the first entry of all_ilos with the key
FirstSeen(all_ilos, key) ==
    CHOOSE i \in 1..Len(all_ilos) :
        /\ Key(all_ilos[i][1]) = key
        /\ \A j \in 1..(i - 1) : Key(all_ilos[j][1]) # key

\* the title of the earliest of the URLs whose page has a non-empty title
FirstTitle(urls) ==
    LET titled == {k \in 1..Len(urls) : PageResult(urls[k]).title # ""}
    IN  IF titled = {} THEN ""
        ELSE PageResult(urls[CHOOSE k \in titled : \A n \in titled : k <= n]).title

C21_SizeCapped ==
    Returned =>
        /\ Len(programme.raw_text) <= StoredTextCap
        /\ Len(programme.raw_html) <= StoredHtmlCap

\* the URLs whose fetch failed, and the last document when its extraction
\* failed: items the call is known to have skipped
FailedItems ==
    (Len(call.attempted) - Len(call.scraped_urls))
        + (IF LastWasDocument /\ ~call.result.success THEN 1 ELSE 0)

\* C22: every URL or document whose fetch or extraction fails is skipped
\* and noted in the scrape_notes of the returned ProgrammeData, so the
\* notes are at least as many as the failed items
C22_FailureNotes ==
    Returned => Len(programme.scrape_notes) >= FailedItems

----------------------------------------------------------------------------
(* Properties of analyze_gaps, of ILOAnalyzer.analyze and of the report. *)

\* the ilo_issues entry and the critical_gaps entry for a KSA category
\* that no ILO falls in
AbsenceIssue ==
    [Knowledge |-> "No Knowledge-focused ILOs detected",
     Skill |-> "No Skill-focused ILOs detected",
     Attitude |-> "No Attitude-focused ILOs detected"]
AbsenceGap ==
    [Knowledge |-> "Missing Knowledge dimension in ILOs",
     Skill |-> "Missing Skills dimension in ILOs",
     Attitude |-> "Missing Attitudes dimension in ILOs"]

\* the ilo_issues entries about the number of ILOs
CountIssues ==
    {"Only " \o ToString(gap.ilo_count) \o " ILOs - EFMD recommends 5-6",
     ToString(gap.ilo_count) \o " ILOs is too many - EFMD recommends 5-6"}

\* the critical_gaps entry about the number of ILOs
CountGap == "NO PROGRAMME ILOs FOUND - Critical for EFMD"

\* C23 as stated: every KSA category without an ILO has its entry in
\* ilo_issues and in critical_gaps, and an ILO count outside 5..8 has an
\* ilo_issues entry and no critical gap
C23_EveryAbsence ==
    Analyzed =>
        /\ \A cat \in DOMAIN AbsenceIssue :
              LacksCategory(cat) =>
                  /\ AbsenceIssue[cat] \in Range(gap.ilo_issues)
                  /\ AbsenceGap[cat] \in Range(gap.critical_gaps)
        /\ gap.ilo_count \notin 5..8 =>
              /\ CountIssues \cap Range(gap.ilo_issues) # {}
              /\ CountGap \notin Range(gap.critical_gaps)

\* C23: for a programme with at least one ILO, a KSA category without an
\* ILO has its entry in ilo_issues and in critical_gaps (and only then), a
\* count below 5 or above 8 adds one ilo_issues entry and no critical gap,
\* and a non-zero weak-verb count adds one ilo_issues entry; a programme
\* without ILOs gets the single issue "Programme ILOs are missing entirely"
\* and the single critical gap "NO PROGRAMME ILOs FOUND" instead
C23_AbsenceRecorded ==
    Analyzed =>
        LET issues == Range(gap.ilo_issues)
            critical == Range(gap.critical_gaps)
            lacking == {cat \in DOMAIN AbsenceIssue : LacksCategory(cat)}
            weak == {i \in 1..Len(programme.programme_ilos) :
                        programme.programme_ilos[i].has_weak_verb}
            weakIssue == ToString(Cardinality(weak)) \o " ILOs use weak/unmeasurable verbs"
        IN  /\ gap.ilo_count = Len(programme.programme_ilos)
            /\ gap.ilo_count > 0 =>
                  /\ \A cat \in DOMAIN AbsenceIssue :
                        /\ (cat \in lacking) <=> (AbsenceIssue[cat] \in issues)
                        /\ (cat \in lacking) <=> (AbsenceGap[cat] \in critical)
                  /\ (gap.ilo_count \notin 5..8) <=> (CountIssues \cap issues # {})
                  /\ CountGap \notin critical
                  /\ (weak # {}) <=> (weakIssue \in issues)
                  /\ Len(gap.ilo_issues) =
                        Cardinality(lacking)
                            + (IF gap.ilo_count \in 5..8 THEN 0 ELSE 1)
                            + (IF weak = {} THEN 0 ELSE 1)
            /\ gap.ilo_count = 0 =>
                  /\ gap.ilo_issues = <<"Programme ILOs are missing entirely">>
                  /\ CountGap \in critical
                  /\ \A cat \in DOMAIN AbsenceIssue : AbsenceGap[cat] \notin critical

\* four ILOs, none of them Knowledge: the absence is in both lists, the
\* count only in ilo_issues
C23_Witness ==
    /\ Analyzed
    /\ gap.ilo_count = 4
    /\ LacksCategory("Knowledge")
    /\ ~LacksCategory("Skill")
    /\ "No Knowledge-focused ILOs detected" \in Range(gap.ilo_issues)
    /\ "Missing Knowledge dimension in ILOs" \in Range(gap.critical_gaps)
    /\ "Only 4 ILOs - EFMD recommends 5-6" \in Range(gap.ilo_issues)
    /\ CountGap \notin Range(gap.critical_gaps)

\* format_gap_report has returned
Reported == pc = "reported"

\* the band of a readiness score
Band(score) ==
    IF score >= 80 THEN "ready" ELSE IF score >= 60 THEN "partial"
    ELSE IF score >= 40 THEN "at-risk" ELSE "not-ready"

\* the band a fix-time estimate stands for
BandOfMonths == [m \in {1, 3, 6, 12} |->
                    CASE m = 1 -> "ready" [] m = 3 -> "partial"
                      [] m = 6 -> "at-risk" [] m = 12 -> "not-ready"]

\* the band a status line of the report stands for
BandOfStatus ==
    [l \in {"Status: (green) READY - Minor improvements needed",
            "Status: (yellow) PARTIAL - Significant work required",
            "Status: (orange) AT RISK - Major gaps to address",
            "Status: (red) NOT READY - Fundamental issues"} |->
        CASE l = "Status: (green) READY - Minor improvements needed" -> "ready"
          [] l = "Status: (yellow) PARTIAL - Significant work required" -> "partial"
          [] l = "Status: (orange) AT RISK - Major gaps to address" -> "at-risk"
          [] l = "Status: (red) NOT READY - Fundamental issues" -> "not-ready"]

\* C24: estimated_fix_months is 1 for a readiness score of 80 or more, 3
\* for 60..79, 6 for 40..59 and 12 below 40, and the status line of the
\* report is chosen by the same four bands, so the label and the estimate
\* the report prints belong to the same band
C24_SameBand ==
    /\ pc \in {"analyzed", "reported"} =>
          /\ gap.estimated_fix_months \in DOMAIN BandOfMonths
          /\ BandOfMonths[gap.estimated_fix_months] = Band(gap.readiness_score)
    /\ Reported =>
          /\ report[1] = "EFMD READINESS SCORE: " \o ToString(gap.readiness_score) \o "/100"
          /\ report[2] \in DOMAIN BandOfStatus
          /\ BandOfStatus[report[2]] = Band(gap.readiness_score)
          /\ BandOfStatus[report[2]] = BandOfMonths[gap.estimated_fix_months]
          /\ report[3] = "Estimated time to readiness: "
                             \o ToString(gap.estimated_fix_months) \o " months"

\* a report for a score at the lower edge of a band: 60 is PARTIAL, 3 months
C24_Witness ==
    /\ Reported
    /\ gap.readiness_score = 60
    /\ gap.estimated_fix_months = 3
    /\ report[2] = "Status: (yellow) PARTIAL - Significant work required"

\* C25: for a programme with courses, analyze_gaps partitions the courses:
\* a course is named in courses_no_ilos exactly when it is not counted in
\* courses_with_ilos, so courses_with_ilos + len(courses_no_ilos) equals
\* courses_total, and the report lists the courses that are not counted
C25_CoursePartition ==
    (pc \in {"analyzed", "reported"} /\ Len(programme.courses) > 0) =>
        /\ gap.courses_total = Len(programme.courses)
        /\ gap.courses_with_ilos + Len(gap.courses_no_ilos) = gap.courses_total
        /\ \A i \in 1..Len(programme.courses) :
              (programme.courses[i].title \in Range(gap.courses_no_ilos))
                  <=> (i \notin C6_Documented)
        /\ Reported =>
              \A i \in 1..Len(gap.courses_no_ilos) :
                  i <= 10 => ("    [x] " \o gap.courses_no_ilos[i]) \in Range(report)

\* C26: whenever analyze_gaps returns eligibility_pass true, no eligibility
\* gate is "fail" (ELG-4 is "pass" or "partial"), the programme has at
\* least one ILO in each of Knowledge, Skill and Attitude, and ERS is not
\* in missing_pillars
C26_PassImplies ==
    (pc \in {"analyzed", "reported"} /\ gap.eligibility_pass) =>
        /\ \A id \in DOMAIN gap.eligibility_gates : gap.eligibility_gates[id] # "fail"
        /\ gap.eligibility_gates["ELG-4"] \in {"pass", "partial"}
        /\ \A cat \in {"Knowledge", "Skill", "Attitude"} :
              \E i \in 1..Len(programme.programme_ilos) :
                  programme.programme_ilos[i].ksa_category = cat
        /\ "ERS" \notin Range(gap.missing_pillars)
        /\ gap.critical_gaps = <<>>

\* a passing programme with four ILOs: ELG-4 is only "partial"
C26_Witness ==
    /\ Analyzed
    /\ gap.eligibility_pass
    /\ gap.ilo_count = 4
    /\ gap.eligibility_gates["ELG-4"] = "partial"
    /\ gap.missing_pillars # <<>>

\* the weak verbs that occur in the analysed statement
WeakVerbsIn(text) == {i \in 1..Len(WEAK_VERBS) : Occurs(WEAK_VERBS[i], Lower(text))}

\* the entries of quality_issues that report a weak verb
WeakEntries ==
    {i \in 1..Len(analysis.quality_issues) :
        \E v \in 1..Len(WEAK_VERBS) :
            analysis.quality_issues[i] = "Uses weak/vague verb: \"" \o WEAK_VERBS[v] \o "\""}

\* C27: for every ILOAnalysis that analyze returns, is_measurable is true
\* exactly when a KSA category was found and no weak verb occurs,
\* verb_found is set exactly when ksa_category is set, and quality_issues
\* has at most one weak-verb entry, also when several weak verbs occur
C27_AnalysisInvariants ==
    AnalyzeReturned =>
        /\ analysis.is_measurable <=>
               (analysis.ksa_category # None /\ WeakVerbsIn(analysis.text) = {})
        /\ (analysis.verb_found # None) <=> (analysis.ksa_category # None)
        /\ analysis.ksa_category \in {None, "Knowledge", "Skill", "Attitude"}
        /\ Cardinality(WeakEntries) <= 1
        /\ (Cardinality(WeakEntries) = 1) <=> (WeakVerbsIn(analysis.text) # {})
        /\ \A i, j \in 1..Len(analysis.quality_issues) :
              analysis.quality_issues[i] = analysis.quality_issues[j] => i = j

\* a statement with a category and two weak verbs: one weak-verb entry
C27_Witness ==
    /\ AnalyzeReturned
    /\ Cardinality(WeakVerbsIn(analysis.text)) >= 2
    /\ analysis.ksa_category # None
    /\ analysis.verb_found # None
    /\ ~analysis.is_measurable
    /\ Cardinality(WeakEntries) = 1

----------------------------------------------------------------------------
(* SchoolCrawler.crawl, in its two versions: school_crawler.py, and         *)
(* run_crawler.py, which also skips non-content URLs and responses that     *)
(* are not HTML.  The crawler and the local variables of crawl are the      *)
(* record call; its fields requested, extracted and enqueued are the        *)
(* history of the calls of requests.get, _extract_from_page and of the      *)
(* loop that appends the new links.                                         *)

\* self.priority_keywords of each version
priority_keywords ==
    [school_crawler |->
        <<"about", "university", "school", "faculty", "staff", "people",
          "research", "publication", "study", "education", "programme", "program",
          "admission", "apply", "international", "partner", "exchange",
          "strategy", "sustainability", "responsibility", "quality",
          "accreditation", "ranking", "career", "alumni", "news",
          "dean", "leadership", "management", "organization", "organisation",
          "contact", "key-figures", "facts", "statistics">>,
     run_crawler |->
        <<"about", "key-figures", "facts", "figures", "statistics", "numbers",
          "university", "school", "faculty", "staff", "people", "personnel",
          "research", "publication", "study", "education", "programme", "program",
          "admission", "apply", "international", "partner", "exchange", "cooperation",
          "strategy", "sustainability", "responsibility", "quality", "accreditation",
          "ranking", "career", "alumni", "employment", "dean", "leadership",
          "management", "organization", "organisation", "contact", "master", "bachelor">>]

\* # Skip non-content URLs (run_crawler.py only)
SkipTerms ==
    [school_crawler |-> {},
     run_crawler |-> {".pdf", ".jpg", ".png", ".gif", "mailto:", "tel:", ".doc"}]

\* text.rstrip('/')
RStripSlash(text) ==
    LET kept == {i \in 1..Len(text) : CharAt(text, i) # "/"}
    IN  IF kept = {} THEN ""
        ELSE SubSeq(text, 1, CHOOSE i \in kept : \A j \in kept : i >= j)

\* urljoin raises ValueError("Invalid IPv6 URL") for a network location
\* with an opening and no closing bracket
UrlJoinRaises(href) == Occurs("//[", href) /\ ~Occurs("]", href)

\* urljoin(current_url, href) for the hrefs of the modelled pages: one with
\* a scheme stands for itself, one that starts with "/" replaces the path
\* of the current URL
UrlJoin(current_url, href) ==
    LET colon == Find(href, ":")
        scheme == colon > 1 /\ \A i \in 1..(colon - 1) : CharAt(href, i) \in SchemeChars
    IN  IF scheme THEN href
        ELSE SplitFirst(current_url, ":") \o "://" \o Netloc(current_url) \o href

\* _find_links(current_url, soup): the internal links of a page, each once.
\* full_url = urljoin(current_url, href), then
\* full_url.split('#')[0].split('?')[0].rstrip('/'), kept when its network
\* location is the domain
FindLinks(current_url, hrefs, domain) ==
    LET joined == {UrlJoin(current_url, href) : href \in Range(hrefs)}
        no_fragment == {SplitFirst(full_url, "#") : full_url \in joined}
        no_query == {SplitFirst(full_url, "?") : full_url \in no_fragment}
        stripped == {RStripSlash(full_url) : full_url \in no_query}
    IN  {full_url \in stripped : Netloc(full_url) = domain}

\* priority(url) of _prioritize_links: the index of the first keyword that
\* occurs in url.lower(), 100 when none does
Priority(kws, url) ==
    LET found == UNION {{i \in 1..Len(kws) : Occurs(kws[i], url_lower)} :
                            url_lower \in {Lower(url)}}
    IN  IF found = {} THEN 100 ELSE (CHOOSE i \in found : \A j \in found : i <= j) - 1

\* the orders of the URLs of ranked, a set of pairs of a priority and a
\* URL, in which no URL comes before one of a lower priority number
RECURSIVE SortedOrders(_)
SortedOrders(ranked) ==
    IF ranked = {} THEN {<<>>}
    ELSE UNION {{<<first[2]>> \o rest : rest \in SortedOrders(others)} :
                    <<first, others>> \in
                        {<<r, ranked \ {r}>> : r \in {r \in ranked :
                                                        \A other \in ranked : r[1] <= other[1]}}}

\* _prioritize_links(list(set(links))): the links sorted by priority; links
\* of one priority stay in the order the set gave them, which is any order
PrioritizeLinks(kws, links) ==
    UNION {SortedOrders(ranked) :
               ranked \in {{<<Priority(kws, url), url>> : url \in links}}}

\* for link in new_links: if link not in self.visited and link not in
\* to_visit: to_visit.append(link)
Enqueue(to_visit, visited, new_links) ==
    to_visit \o SelectSeq(new_links,
                          LAMBDA link : link \notin visited /\ link \notin Range(to_visit))

\* mutation: the URL is read and left at the head of the queue
PopRest_Peek(to_visit) == to_visit

\* url = to_visit.pop(0): what is left of the queue
PopRest(to_visit) == Tail(to_visit)

\* mutation: the loop goes on while the visited set has max_pages URLs
LoopContinues_Inclusive(to_visit, visited, max_pages) ==
    to_visit # <<>> /\ Cardinality(visited) <= max_pages

\* while to_visit and len(self.visited) < self.max_pages
LoopContinues(to_visit, visited, max_pages) ==
    to_visit # <<>> /\ Cardinality(visited) < max_pages

\* the site: what requests.get may do for a URL (raise, or answer with a
\* status and a content type) and the hrefs of the page it serves
Html == [exception |-> None, status |-> 200, content_type |-> "text/html; charset=utf-8"]
Site ==
    [u \in {"https://www.hanken.fi", "https://www.hanken.fi/about",
            "https://www.hanken.fi/research", "https://www.hanken.fi/staff",
            "https://www.hanken.fi/contact", "https://www.hanken.fi/missing",
            "https://www.hanken.fi/down", "https://www.hanken.fi/feed",
            "https://www.hanken.fi/brochure.pdf"} |->
        CASE u = "https://www.hanken.fi" ->
                [responses |-> {Html},
                 hrefs |-> <<"/about", "/about#team", "/research?page=2",
                             "https://twitter.com/hanken", "/missing", "/down",
                             "/brochure.pdf", "mailto:info@hanken.fi">>]
          [] u = "https://www.hanken.fi/about" ->
                [responses |-> {Html},
                 hrefs |-> <<"/", "/research/", "/staff", "/contact">>]
          [] u = "https://www.hanken.fi/research" ->
                [responses |-> {Html, [Html EXCEPT !.status = 500]},
                 hrefs |-> <<"https://www.hanken.fi/about", "/missing", "/feed">>]
          [] u = "https://www.hanken.fi/staff" ->
                [responses |-> {Html},
                 hrefs |-> <<"/about", "/research", "/missing", "/down">>]
          [] u = "https://www.hanken.fi/contact" ->
                [responses |-> {Html}, hrefs |-> <<"/staff", "http://[">>]
          [] u = "https://www.hanken.fi/missing" ->
                [responses |-> {[Html EXCEPT !.status = 404]}, hrefs |-> <<>>]
          [] u = "https://www.hanken.fi/down" ->
                [responses |-> {[exception |-> "Connection refused", status |-> 0,
                                 content_type |-> ""]},
                 hrefs |-> <<>>]
          [] u = "https://www.hanken.fi/feed" ->
                [responses |-> {[Html EXCEPT !.content_type = "application/rss+xml"]},
                 hrefs |-> <<>>]
          [] u = "https://www.hanken.fi/brochure.pdf" ->
                [responses |-> {[Html EXCEPT !.content_type = "application/pdf"]},
                 hrefs |-> <<>>]]

\* SchoolCrawler(base_url, max_pages) of either version
Crawlers ==
    {[version |-> version,
      school_url |-> base_url,
      base_url |-> RStripSlash(base_url),
      domain |-> Netloc(base_url),
      max_pages |-> max_pages,
      visited |-> {},
      pages_crawled |-> 0,
      all_pages |-> {}] :
        version \in {"school_crawler", "run_crawler"},
        base_url \in {"https://www.hanken.fi/", "https://www.hanken.fi"},
        max_pages \in {0, 1, 5, MaxPages}}

CrawlerInit ==
    /\ pc = "crawl_called"
    /\ call \in Crawlers
    /\ programme = NoProgramme
    /\ gap = NoGap
    /\ analysis = NoAnalysis
    /\ report = NoReport

\* to_visit = [self.base_url]
BeginCrawl ==
    /\ pc = "crawl_called"
    /\ call' = call @@ [to_visit |-> <<call.base_url>>,
                        requested |-> <<>>, extracted |-> <<>>, enqueued |-> <<>>]
    /\ pc' = "crawl_loop"
    /\ UNCHANGED <<programme, gap, analysis, report>>

\* the head of the loop: the next URL is taken from the queue and dropped
\* when it was visited, is of another domain or is a non-content URL
PopUrl ==
    /\ pc = "crawl_loop"
    /\ LoopContinues(call.to_visit, call.visited, call.max_pages)
    /\ LET url == Head(call.to_visit)
           skipped == \/ url \in call.visited
                      \/ Netloc(url) # call.domain
                      \/ \E url_lower \in {Lower(url)} :
                             \E skip \in SkipTerms[call.version] : Occurs(skip, url_lower)
       IN  /\ call' = [url |-> url] @@ [call EXCEPT !.to_visit = PopRest(@)]
           /\ pc' = IF skipped THEN "crawl_loop" ELSE "crawl_request"
    /\ UNCHANGED <<programme, gap, analysis, report>>

\* requests.get(url) and the checks of the response: an exception, a status
\* other than 200 and (run_crawler.py) a content type other than HTML go on
\* with the next URL; otherwise the URL joins visited
RequestUrl ==
    /\ pc = "crawl_request"
    /\ \E response \in Site[call.url].responses :
          LET failed == \/ response.exception # None
                        \/ response.status # 200
                        \/ /\ call.version = "run_crawler"
                           /\ ~Occurs("text/html", response.content_type)
          IN  /\ call' = [call EXCEPT
                             !.requested = Append(@, call.url),
                             !.visited = IF failed THEN @ ELSE @ \cup {call.url},
                             !.all_pages = IF ~failed /\ call.version = "run_crawler"
                                           THEN @ \cup {call.url} ELSE @]
              /\ pc' = IF failed THEN "crawl_loop" ELSE "crawl_page"
    /\ UNCHANGED <<programme, gap, analysis, report>>

\* the rest of the loop body for a fetched page: its text is stored, its
\* data extracted, its links found, sorted and appended to the queue; the
\* ValueError of a malformed href is caught and ends the iteration
ProcessPage ==
    /\ pc = "crawl_page"
    /\ LET hrefs == Site[call.url].hrefs
           stored == [call EXCEPT !.all_pages = @ \cup {call.url},
                                  !.extracted = Append(@, call.url)]
       IN  IF \E i \in 1..Len(hrefs) : UrlJoinRaises(hrefs[i])
           THEN call' = stored
           ELSE \E new_links \in PrioritizeLinks(priority_keywords[call.version],
                                                 FindLinks(call.url, hrefs, call.domain)) :
                    call' = [stored EXCEPT
                                !.to_visit = Enqueue(@, call.visited, new_links),
                                !.enqueued = Append(@, call.url)]
    /\ pc' = "crawl_loop"
    /\ UNCHANGED <<programme, gap, analysis, report>>

\* self.result.pages_crawled = len(self.visited); return self.result
ReturnCrawl ==
    /\ pc = "crawl_loop"
    /\ ~LoopContinues(call.to_visit, call.visited, call.max_pages)
    /\ call' = [call EXCEPT !.pages_crawled = Cardinality(call.visited)]
    /\ pc' = "crawl_returned"
    /\ UNCHANGED <<programme, gap, analysis, report>>

CrawlerNext == BeginCrawl \/ PopUrl \/ RequestUrl \/ ProcessPage \/ ReturnCrawl

CrawlerSpec == CrawlerInit /\ [][CrawlerNext]_vars

\* the interpreter goes on running crawl: a step that can be taken is taken
CrawlerFairSpec == CrawlerSpec /\ WF_vars(CrawlerNext)

\* ---------------------------------------------------------------------
\* Properties of SchoolCrawler.crawl
\* ---------------------------------------------------------------------

\* how often x occurs in the sequence xs
Occurrences(xs, x) == Cardinality({i \in 1..Len(xs) : xs[i] = x})

\* crawl has passed its first lines
InCrawl == pc \in {"crawl_loop", "crawl_request", "crawl_page", "crawl_returned"}

\* between two iterations of the while loop, or after it
BetweenIterations == pc \in {"crawl_loop", "crawl_returned"}

\* the page of url has an href that urljoin refuses
HasMalformedHref(url) ==
    \E i \in 1..Len(Site[url].hrefs) : UrlJoinRaises(Site[url].hrefs[i])

\* the part of the invariants that needs no knowledge of the pages: the
\* limit, the domain, and pages_crawled on return
LimitAndDomain ==
    /\ InCrawl =>
          /\ Cardinality(call.visited) <= call.max_pages
          /\ \A url \in call.visited : Netloc(url) = Netloc(call.school_url)
    /\ (pc = "crawl_returned") => call.pages_crawled = Cardinality(call.visited)

FailedRequests == Range(call.requested) \ call.visited

\* C29: during one crawl no URL is requested over HTTP more than once,
\* the URLs whose request failed and that later pages link to included
C29_NoRepeatedRequest ==
    InCrawl => \A url \in Range(call.requested) : Occurrences(call.requested, url) = 1

\* C30: crawl terminates: under every schedule of responses and every
\* order of the links the loop condition becomes false and crawl returns,
\* on a site whose pages link to each other in cycles and link to URLs
\* that always fail
C30_Terminates == <>(pc = "crawl_returned")

\* a crawl that returned with an empty queue after following the links
\* of a cycle and requesting a URL that always fails more than once
C30_Witness ==
    /\ pc = "crawl_returned"
    /\ call.to_visit = <<>>
    /\ Cardinality(call.visited) < call.max_pages
    /\ {"https://www.hanken.fi", "https://www.hanken.fi/about"} \subseteq Range(call.enqueued)
    /\ \E url \in FailedRequests : Occurrences(call.requested, url) > 1

====
